---------------------------- MODULE Spec2Model ----------------------------
(***************************************************************************)
(* A model of the RAG service:                                             *)
(*   - app/query/retriever.py        HybridRetriever (TF-IDF sparse index, *)
(*                                   exact matcher, hybrid ranker)         *)
(*   - app/vectorstore/faiss_client  the process-wide vector index         *)
(*   - app/chunking/chunker.py       sections and chunks of a document     *)
(*   - app/ingestion/pipeline.py     ingest_document                       *)
(*   - app/query/evaluator.py        evaluate_answer                       *)
(*   - app/query/formatter.py        AdvancedResponseFormatter             *)
(*   - app/api/endpoints/query.py    run_handler                           *)
(*                                                                         *)
(* Texts are sequences of word tokens.  Scores are fixed-point numbers in  *)
(* units of 1/Scale.  One process lifetime is modelled, started on a disk  *)
(* that holds either no index or a consistent one.                         *)
(***************************************************************************)
EXTENDS Integers, Sequences, FiniteSets, TLC

\* Python's None, where a string, an index, a matrix or a file is expected
None == "None"
NoIndex == [absent |-> TRUE]
NoMatrix == [absent |-> TRUE]

(***************************************************************************)
(* Bounds of the model.                                                    *)
(***************************************************************************)
MaxVectors == 2     \* vectors the index may hold before upserts stop
MaxTopK    == 2     \* largest top_k a caller passes
MaxChunks  == 2     \* longest chunk list a caller passes

(***************************************************************************)
(* Fixed-point resolution of a float score, and natural logarithms of      *)
(* 1..8 in the same unit (used by the smoothed idf).                       *)
(***************************************************************************)
Scale == 100
Ln100 == <<0, 69, 110, 139, 161, 179, 195, 208>>

(***************************************************************************)
(* Generic sequence helpers.                                               *)
(***************************************************************************)
Range(s) == {s[i] : i \in DOMAIN s}

Min2(a, b) == IF a <= b THEN a ELSE b

\* s[:k] of Python for k >= 0
Take(s, k) == SubSeq(s, 1, Min2(k, Len(s)))

RECURSIVE SumSeq(_)
SumSeq(s) == IF s = <<>> THEN 0 ELSE Head(s) + SumSeq(Tail(s))

Dot(u, v) == SumSeq([j \in DOMAIN u |-> u[j] * v[j]])

RECURSIVE ISqrtIn(_, _, _)
ISqrtIn(n, lo, hi) ==
    \* largest r in lo..hi with r*r <= n, given lo*lo <= n
    IF lo >= hi THEN lo
    ELSE LET mid == (lo + hi + 1) \div 2
         IN  IF mid * mid <= n THEN ISqrtIn(n, mid, hi)
                               ELSE ISqrtIn(n, lo, mid - 1)

ISqrt(n) == ISqrtIn(n, 0, Min2(n, 46340))

(***************************************************************************)
(* Stable sorts.  list.sort(key=score, reverse=True) and sorted(...,       *)
(* reverse=True) keep the original order of equal keys.                    *)
(***************************************************************************)
RECURSIVE InsertDesc(_, _)
InsertDesc(sorted, r) ==
    \* r goes after every element whose score is >= r.score
    IF sorted = <<>> THEN <<r>>
    ELSE IF Head(sorted).score >= r.score
         THEN <<Head(sorted)>> \o InsertDesc(Tail(sorted), r)
         ELSE <<r>> \o sorted

RECURSIVE SortDescFrom(_, _)
SortDescFrom(acc, rest) ==
    IF rest = <<>> THEN acc
    ELSE SortDescFrom(InsertDesc(acc, Head(rest)), Tail(rest))

\* a variant that leaves the list in concatenation order
SortByScoreDescBroken(results) == results

SortByScoreDesc(results) == SortDescFrom(<<>>, results)

(***************************************************************************)
(* Tokens.  re.findall(r'\b\w+\b', text.lower()) of the exact matcher and  *)
(* the analyzer of TfidfVectorizer(stop_words='english',                   *)
(* ngram_range=(1, 2)): lower-case, tokens of two or more characters,      *)
(* stop words removed, then unigrams and bigrams.                          *)
(***************************************************************************)
Lower(tok) == IF tok = "Dental" THEN "dental" ELSE tok

ENGLISH_STOP_WORDS == {"the"}

\* alphabetical rank of the lower-cased tokens of the model
TokenRank(tok) ==
    CASE tok = "dental"    -> 1
      [] tok = "maternity" -> 2
      [] tok = "the"       -> 3
      [] tok = "x"         -> 4

\* token_pattern (?u)\b\w\w+\b drops one-character tokens
TwoOrMoreChars(tok) == tok # "x"

LowerText(text) == [i \in DOMAIN text |-> Lower(text[i])]

\* set(re.findall(r'\b\w+\b', text.lower()))
WordSet(text) == Range(LowerText(text))

TfidfTokens(text) ==
    SelectSeq(LowerText(text),
              LAMBDA t : TwoOrMoreChars(t) /\ t \notin ENGLISH_STOP_WORDS)

\* the terms of one document, as a sequence with repetitions:
\* a term is <<t>> or <<t1, t2>>
Ngrams(text) ==
    LET toks == TfidfTokens(text)
    IN  [i \in 1..Len(toks) |-> <<toks[i]>>]
        \o [i \in 1..(Len(toks) - 1) |-> <<toks[i], toks[i + 1]>>]

\* string order of the terms "t" and "t1 t2"
TermLess(a, b) ==
    \/ TokenRank(a[1]) < TokenRank(b[1])
    \/ /\ a[1] = b[1]
       /\ \/ Len(a) < Len(b)
          \/ /\ Len(a) = 2 /\ Len(b) = 2
             /\ TokenRank(a[2]) < TokenRank(b[2])

RECURSIVE SortTerms(_)
SortTerms(S) ==
    IF S = {} THEN <<>>
    ELSE LET m == CHOOSE a \in S : \A b \in S \ {a} : TermLess(a, b)
         IN  <<m>> \o SortTerms(S \ {m})

Count(seq, x) == Cardinality({i \in DOMAIN seq : seq[i] = x})

(***************************************************************************)
(* TfidfVectorizer(max_features=1000): fit_transform and transform.        *)
(***************************************************************************)
max_features == 1000

\* the max_features most frequent terms of the corpus
CapVocabulary(terms, docs) ==
    IF Cardinality(terms) <= max_features THEN terms
    ELSE LET freq(t) == SumSeq([i \in DOMAIN docs |-> Count(docs[i], t)])
         IN  CHOOSE T \in SUBSET terms :
                /\ Cardinality(T) = max_features
                /\ \A t \in T, u \in terms \ T :
                      freq(t) > freq(u) \/ (freq(t) = freq(u) /\ TermLess(t, u))

\* idf = ln((1 + n) / (1 + df)) + 1
Idf(n, df) == Ln100[n + 1] - Ln100[df + 1] + Scale

\* a row of term weights scaled to unit L2 norm
L2Normalize(raw) ==
    LET norm == ISqrt(Dot(raw, raw))
    IN  IF norm = 0 THEN raw
        ELSE [j \in DOMAIN raw |-> (raw[j] * Scale) \div norm]

TfidfRow(text, vocabulary, idf) ==
    LET grams == Ngrams(text)
    IN  L2Normalize([j \in DOMAIN vocabulary |->
                        Count(grams, vocabulary[j]) * idf[j]])

\* fit_transform(texts): raises ValueError on an empty vocabulary
FitTransform(texts) ==
    LET docs  == [i \in DOMAIN texts |-> Ngrams(texts[i])]
        terms == UNION {Range(docs[i]) : i \in DOMAIN docs}
        vocab == SortTerms(CapVocabulary(terms, docs))
        df(t) == Cardinality({i \in DOMAIN docs : t \in Range(docs[i])})
        idf   == [j \in DOMAIN vocab |-> Idf(Len(texts), df(vocab[j]))]
    IN  IF terms = {}
        THEN [raised |-> TRUE, vocabulary_ |-> <<>>, idf_ |-> <<>>,
              matrix |-> NoMatrix]
        ELSE [raised |-> FALSE, vocabulary_ |-> vocab, idf_ |-> idf,
              matrix |-> [rows  |-> [i \in DOMAIN texts |->
                                        TfidfRow(texts[i], vocab, idf)],
                          ncols |-> Len(vocab)]]

\* cosine_similarity(query_vector, matrix).flatten()
CosineSimilarities(qv, matrix) ==
    [i \in DOMAIN matrix.rows |->
        LET d  == matrix.rows[i]
            qq == Dot(qv, qv)
            dd == Dot(d, d)
        IN  IF qq = 0 \/ dd = 0 THEN 0
            ELSE (Dot(qv, d) * Scale) \div ISqrt(qq * dd)]

(***************************************************************************)
(* Data of the model.  A chunk is {id, chunk_text, metadata}; ingestion    *)
(* stores only section data in metadata (chunker.py:67, pipeline.py:145),  *)
(* so the metadata of a chunk carries no chunk_text.                       *)
(***************************************************************************)
Chunk(id, text) ==
    [id |-> id, chunk_text |-> text, metadata |-> [section |-> "Document"]]

ChunkA == Chunk("a", <<"maternity">>)
ChunkB == Chunk("b", <<"Dental", "maternity", "x">>)
ChunkS == Chunk("s", <<"the">>)

\* the text of chunk a once more, from a later ingestion of the same
\* document: a new uuid (chunker.py:65), the same embedding
ChunkA2 == Chunk("a2", <<"maternity">>)

\* the chunk lists callers pass, at most MaxChunks long
ChunkLists ==
    {cs \in {<<>>, <<ChunkA>>, <<ChunkB>>, <<ChunkS>>, <<ChunkA, ChunkB>>,
             <<ChunkS, ChunkB>>, <<ChunkA, ChunkA2>>,
             <<ChunkA, ChunkB, ChunkS>>} :
        Len(cs) <= MaxChunks}

Queries == {<<>>, <<"maternity", "the">>, <<"Dental", "x">>}

TopKs == 0..MaxTopK

\* what the embedding service answers for a chunk (a black box text -> vector)
EmbeddingOf(id) ==
    CASE id = "a" -> <<3, 4>>
      [] id = "a2" -> <<3, 4>>
      [] id = "b" -> <<4, 3>>
      [] id = "s" -> <<0, 0>>
      [] id = "d" -> <<1>>

Embedded(c) == [id |-> c.id, chunk_text |-> c.chunk_text,
                metadata |-> c.metadata, embedding |-> EmbeddingOf(c.id)]

EmbeddedList(cs) == [i \in DOMAIN cs |-> Embedded(cs[i])]

\* a variant that names a row by the id of the chunk ingested at that position
KeywordIdOfChunk(idx) ==
    CASE idx = 0 -> "a"
      [] idx = 1 -> "b"
      [] idx = 2 -> "s"
      [] idx = 3 -> "d"

\* f"keyword_{idx}" for a 0-based row index
KeywordId(idx) ==
    CASE idx = 0 -> "keyword_0"
      [] idx = 1 -> "keyword_1"
      [] idx = 2 -> "keyword_2"
      [] idx = 3 -> "keyword_3"

(***************************************************************************)
(* HybridRetriever: the sparse index.  A retriever is the record           *)
(* [tfidf_vectorizer, tfidf_matrix, chunk_texts].                          *)
(***************************************************************************)
NewRetriever ==
    [tfidf_vectorizer |-> [vocabulary_ |-> <<>>, idf_ |-> <<>>,
                           fitted |-> FALSE],
     tfidf_matrix     |-> NoMatrix,
     chunk_texts      |-> <<>>]

ChunkTexts(chunks) == [i \in DOMAIN chunks |-> chunks[i].chunk_text]

\* a variant that adds the texts to those of the earlier build
BuildAppendTexts(r, chunks) ==
    [r EXCEPT !.chunk_texts = @ \o ChunkTexts(chunks)]

\* line 28
BuildAssignTexts(r, chunks) ==
    [r EXCEPT !.chunk_texts = ChunkTexts(chunks)]

\* line 30, right-hand side: fit_transform refits the vectorizer in place.
\* refit_lost: whether a failed fit leaves the vectorizer unfitted (it
\* replaces its idf transformer before counting) or as it was.
BuildFit(r, refit_lost) ==
    LET ft == FitTransform(r.chunk_texts)
    IN  IF ft.raised
        THEN [retriever |-> [r EXCEPT !.tfidf_vectorizer.fitted =
                                          IF refit_lost THEN FALSE ELSE @],
              raised |-> "ValueError", matrix |-> NoMatrix]
        ELSE [retriever |-> [r EXCEPT !.tfidf_vectorizer =
                                [vocabulary_ |-> ft.vocabulary_,
                                 idf_ |-> ft.idf_, fitted |-> TRUE]],
              raised |-> None, matrix |-> ft.matrix]

\* line 30, the assignment
BuildAssignMatrix(r, matrix) == [r EXCEPT !.tfidf_matrix = matrix]

\* build_tfidf_index run without interruption
build_tfidf_index(r, chunks, refit_lost) ==
    LET r1 == BuildAssignTexts(r, chunks)
    IN  IF r1.chunk_texts = <<>>
        THEN [retriever |-> r1, raised |-> None]
        ELSE LET f == BuildFit(r1, refit_lost)
             IN  IF f.raised # None
                 THEN [retriever |-> f.retriever, raised |-> f.raised]
                 ELSE [retriever |-> BuildAssignMatrix(f.retriever, f.matrix),
                       raised |-> None]

\* np.argsort(similarities)[::-1]: ascending stable order, reversed
RECURSIVE ArgsortAsc(_, _)
ArgsortAsc(sims, left) ==
    IF left = {} THEN <<>>
    ELSE LET i == CHOOSE a \in left : \A b \in left \ {a} :
                     sims[a] < sims[b] \/ (sims[a] = sims[b] /\ a < b)
         IN  <<i>> \o ArgsortAsc(sims, left \ {i})

Reverse(s) == [i \in DOMAIN s |-> s[Len(s) + 1 - i]]

RECURSIVE KeywordResults(_, _, _)
\* lines 43-51: the loop over top_indices; IndexError when chunk_texts is
\* shorter than the matrix
KeywordResults(r, sims, top_indices) ==
    IF top_indices = <<>> THEN [raised |-> None, results |-> <<>>]
    ELSE LET idx  == Head(top_indices)
             rest == KeywordResults(r, sims, Tail(top_indices))
         IN  IF sims[idx] > 0
             THEN IF idx > Len(r.chunk_texts)
                  THEN [raised |-> "IndexError", results |-> <<>>]
                  ELSE IF rest.raised # None THEN rest
                  ELSE [raised |-> None,
                        results |->
                          <<[id |-> KeywordId(idx - 1), score |-> sims[idx],
                             method |-> "keyword_search",
                             chunk_text |-> r.chunk_texts[idx]]>>
                          \o rest.results]
             ELSE rest

\* a variant without the test of lines 34-35
keyword_search_unguarded(r, query, top_k) ==
    IF ~r.tfidf_vectorizer.fitted
    THEN [raised |-> "NotFittedError", results |-> <<>>]
    ELSE LET v  == r.tfidf_vectorizer
             qv == TfidfRow(query, v.vocabulary_, v.idf_)
         IN  IF r.tfidf_matrix = NoMatrix \/ Len(qv) # r.tfidf_matrix.ncols
             THEN [raised |-> "ValueError", results |-> <<>>]
             ELSE LET sims == CosineSimilarities(qv, r.tfidf_matrix)
                      top_indices ==
                          Take(Reverse(ArgsortAsc(sims, DOMAIN sims)), top_k)
                  IN  KeywordResults(r, sims, top_indices)

\* lines 32-53
keyword_search(r, query, top_k) ==
    IF r.tfidf_matrix = NoMatrix THEN [raised |-> None, results |-> <<>>]
    ELSE IF ~r.tfidf_vectorizer.fitted
    THEN [raised |-> "NotFittedError", results |-> <<>>]
    ELSE LET v  == r.tfidf_vectorizer
             qv == TfidfRow(query, v.vocabulary_, v.idf_)
         IN  IF Len(qv) # r.tfidf_matrix.ncols
             THEN [raised |-> "ValueError", results |-> <<>>]
             ELSE LET sims == CosineSimilarities(qv, r.tfidf_matrix)
                      top_indices ==
                          Take(Reverse(ArgsortAsc(sims, DOMAIN sims)), top_k)
                  IN  KeywordResults(r, sims, top_indices)

(***************************************************************************)
(* HybridRetriever: the exact matcher.                                     *)
(***************************************************************************)
ExactTopN == 10

\* a variant that divides by the number of terms of the chunk
RECURSIVE ExactResultsByChunkTerms(_, _)
ExactResultsByChunkTerms(query_terms, chunks) ==
    IF chunks = <<>> THEN <<>>
    ELSE LET chunk   == Head(chunks)
             matches == query_terms \cap WordSet(chunk.chunk_text)
         IN  (IF matches # {}
              THEN <<[id |-> chunk.id,
                      score |-> (Cardinality(matches) * Scale)
                                   \div Cardinality(WordSet(chunk.chunk_text)),
                      method |-> "exact_match",
                      matched_terms |-> matches,
                      chunk_text |-> chunk.chunk_text]>>
              ELSE <<>>)
             \o ExactResultsByChunkTerms(query_terms, Tail(chunks))

RECURSIVE ExactResults(_, _)
ExactResults(query_terms, chunks) ==
    IF chunks = <<>> THEN <<>>
    ELSE LET chunk   == Head(chunks)
             matches == query_terms \cap WordSet(chunk.chunk_text)
         IN  (IF matches # {}
              THEN <<[id |-> chunk.id,
                      score |-> (Cardinality(matches) * Scale)
                                   \div Cardinality(query_terms),
                      method |-> "exact_match",
                      matched_terms |-> matches,
                      chunk_text |-> chunk.chunk_text]>>
              ELSE <<>>)
             \o ExactResults(query_terms, Tail(chunks))

\* a variant that slices without sorting
exact_keyword_match_unsorted(query, chunks) ==
    Take(ExactResults(WordSet(query), chunks), ExactTopN)

\* lines 55-74
exact_keyword_match(query, chunks) ==
    Take(SortByScoreDesc(ExactResults(WordSet(query), chunks)), ExactTopN)

(***************************************************************************)
(* faiss_client.py.  The module globals are the record                     *)
(* [index, metadata, is_initialized]; an index is [d, xb] (dimension and   *)
(* the stored vectors in insertion order, index.ntotal = Len(xb)).  The    *)
(* disk is [index_file, metadata_file].                                    *)
(***************************************************************************)
Metrics == {"cosine", "l2"}

\* a file: absent, written with a content, or left unfinished by a failed write
AbsentFile == [state |-> "absent"]
PartialFile == [state |-> "partial"]
File(content) == [state |-> "written", content |-> content]

NewFaiss == [index |-> NoIndex, metadata |-> <<>>, is_initialized |-> FALSE]

\* np.array(embedding, dtype=np.float32)
ToFloat(v) == [i \in DOMAIN v |-> v[i] * Scale]

\* lines 82-85 and 139-142: divide by the norm unless it is zero
NormalizeIfCosine(x, metric) ==
    IF metric = "cosine"
    THEN LET norm == ISqrt(Dot(x, x))
         IN  IF norm > 0 THEN [i \in DOMAIN x |-> (x[i] * Scale) \div norm]
                         ELSE x
    ELSE x

\* lines 23-49
InitFaiss(f, d) ==
    IF f.is_initialized THEN f
    ELSE IF d.index_file # AbsentFile /\ d.metadata_file # AbsentFile
    THEN [index |-> d.index_file.content,
          metadata |-> d.metadata_file.content, is_initialized |-> TRUE]
    ELSE [index |-> NoIndex, metadata |-> <<>>, is_initialized |-> TRUE]

\* IndexFlatIP / IndexFlatL2 .search: the score of stored vector x
FlatScore(q, x, metric) ==
    IF metric = "cosine"
    THEN Dot(q, x) \div Scale
    ELSE SumSeq([i \in DOMAIN q |-> (q[i] - x[i]) * (q[i] - x[i])]) \div Scale

\* nearest first: largest inner product, or smallest L2 distance; equal
\* scores in insertion order
RECURSIVE FlatOrder(_, _, _)
FlatOrder(scores, left, metric) ==
    IF left = {} THEN <<>>
    ELSE LET Better(a, b) ==
                 IF metric = "cosine" THEN scores[a] > scores[b]
                                      ELSE scores[a] < scores[b]
             i == CHOOSE a \in left : \A b \in left \ {a} :
                     Better(a, b) \/ (scores[a] = scores[b] /\ a < b)
         IN  <<i>> \o FlatOrder(scores, left \ {i}, metric)

\* index.search(query_vector, k): raises unless k > 0 and the dimensions agree
FlatSearch(index, q, k, metric) ==
    IF Len(q) # index.d \/ k <= 0
    THEN [raised |-> "AssertionError", hits |-> <<>>]
    ELSE LET scores == [i \in DOMAIN index.xb |->
                           FlatScore(q, index.xb[i], metric)]
             order  == Take(FlatOrder(scores, DOMAIN scores, metric), k)
         IN  [raised |-> None,
              hits |-> [j \in DOMAIN order |->
                           [score |-> scores[order[j]], idx |-> order[j]]]]

\* lines 129-159, after _init_faiss: f is the initialized module state
query_faiss(f, query_embedding, top_k, metric) ==
    IF f.index = NoIndex
    THEN [raised |-> "AttributeError", results |-> <<>>]
    ELSE IF Len(f.index.xb) = 0 THEN [raised |-> None, results |-> <<>>]
    ELSE LET qv == NormalizeIfCosine(ToFloat(query_embedding), metric)
             s  == FlatSearch(f.index, qv,
                              Min2(top_k, Len(f.index.xb)), metric)
             kept == SelectSeq(s.hits,
                               LAMBDA h : h.idx <= Len(f.metadata))
         IN  IF s.raised # None
             THEN [raised |-> s.raised, results |-> <<>>]
             ELSE [raised |-> None,
                   results |-> [j \in DOMAIN kept |->
                       [id |-> f.metadata[kept[j].idx].id,
                        score |-> kept[j].score,
                        metadata |-> f.metadata[kept[j].idx].metadata]]]

(***************************************************************************)
(* upsert_to_faiss, statement by statement.  A machine is                  *)
(* [faiss, disk, up]: the module globals, the disk and the locals of one   *)
(* call, up = [pc, chunks, vectors, new_metadata, raised, wrote].          *)
(***************************************************************************)
UpIdle == [pc |-> "idle"]

SameLengths(vectors) ==
    \A i, j \in DOMAIN vectors : Len(vectors[i]) = Len(vectors[j])

\* lines 63-94: _init_faiss, the loop over the chunks, np.array(vectors)
UpBegin(f, d, chunks, metric) ==
    LET vectors == [i \in DOMAIN chunks |->
                       NormalizeIfCosine(ToFloat(chunks[i].embedding), metric)]
        new_metadata == [i \in DOMAIN chunks |->
                           [id |-> chunks[i].id,
                            metadata |-> chunks[i].metadata]]
        ragged == ~SameLengths(vectors)
    IN  [faiss |-> InitFaiss(f, d), disk |-> d,
         up |-> [pc |-> IF ragged THEN "done" ELSE "create",
                 chunks |-> chunks, vectors |-> vectors,
                 new_metadata |-> new_metadata,
                 raised |-> IF ragged THEN "ValueError" ELSE None,
                 wrote |-> {}]]

Raise(m, err) == [m EXCEPT !.up.pc = "done", !.up.raised = err]

\* lines 96-107: vectors_array.shape[1] fails on an empty batch
UpCreate(m, metric) ==
    IF m.faiss.index # NoIndex THEN [m EXCEPT !.up.pc = "add"]
    ELSE IF m.up.vectors = <<>> THEN Raise(m, "IndexError")
    ELSE [m EXCEPT !.faiss.index = [d |-> Len(m.up.vectors[1]), xb |-> <<>>],
                   !.up.pc = "add"]

\* a variant whose add accepts a batch of any dimension
UpAddUnchecked(m) ==
    IF m.up.vectors = <<>> THEN Raise(m, "ValueError")
    ELSE [m EXCEPT !.faiss.index.xb = @ \o m.up.vectors, !.up.pc = "extend"]

\* line 110: index.add checks the shape of the batch
UpAdd(m) ==
    IF m.up.vectors = <<>> THEN Raise(m, "ValueError")
    ELSE IF Len(m.up.vectors[1]) # m.faiss.index.d
    THEN Raise(m, "AssertionError")
    ELSE [m EXCEPT !.faiss.index.xb = @ \o m.up.vectors, !.up.pc = "extend"]

\* a variant that puts the new records before the old ones
ExtendMetadataFront(metadata, new_metadata) == new_metadata \o metadata

\* metadata.extend(new_metadata)
ExtendMetadata(metadata, new_metadata) == metadata \o new_metadata

\* lines 113-114
UpExtend(m) ==
    [m EXCEPT !.faiss.metadata = ExtendMetadata(@, m.up.new_metadata),
              !.up.pc = "write_index"]

WriteOutcomes == {"ok", "fail_unchanged", "fail_partial"}

\* lines 53-54: faiss.write_index(_index, FAISS_INDEX_PATH)
UpWriteIndex(m, outcome) ==
    CASE outcome = "ok" ->
           [m EXCEPT !.disk.index_file = File(m.faiss.index),
                     !.up.wrote = @ \cup {"index"},
                     !.up.pc = "write_metadata"]
      [] outcome = "fail_unchanged" -> Raise(m, "IOError")
      [] outcome = "fail_partial" ->
           Raise([m EXCEPT !.disk.index_file = PartialFile], "IOError")

\* lines 55-56: pickle.dump(_metadata, f)
UpWriteMetadata(m, outcome) ==
    CASE outcome = "ok" ->
           [m EXCEPT !.disk.metadata_file = File(m.faiss.metadata),
                     !.up.wrote = @ \cup {"metadata"},
                     !.up.pc = "done"]
      [] outcome = "fail_unchanged" -> Raise(m, "IOError")
      [] outcome = "fail_partial" ->
           Raise([m EXCEPT !.disk.metadata_file = PartialFile], "IOError")

\* one statement of a call that has begun; io = [index, metadata] are the
\* outcomes of the two writes
UpStep(m, io, metric) ==
    CASE m.up.pc = "create"         -> UpCreate(m, metric)
      [] m.up.pc = "add"            -> UpAdd(m)
      [] m.up.pc = "extend"         -> UpExtend(m)
      [] m.up.pc = "write_index"    -> UpWriteIndex(m, io.index)
      [] m.up.pc = "write_metadata" -> UpWriteMetadata(m, io.metadata)

RECURSIVE UpRun(_, _, _)
UpRun(m, io, metric) ==
    IF m.up.pc = "done" THEN m ELSE UpRun(UpStep(m, io, metric), io, metric)

\* upsert_to_faiss(chunks) run without interruption
upsert_to_faiss(f, d, chunks, io, metric) ==
    UpRun(UpBegin(f, d, chunks, metric), io, metric)

(***************************************************************************)
(* HybridRetriever.hybrid_search.                                          *)
(***************************************************************************)
\* line 86, "not self.tfidf_matrix": None is false; a sparse matrix has a
\* truth value only when its shape is (1, 1), and raises ValueError otherwise
NotMatrix(matrix) ==
    IF matrix = NoMatrix THEN [raised |-> None, value |-> TRUE]
    ELSE IF Len(matrix.rows) = 1 /\ matrix.ncols = 1
    THEN [raised |-> None, value |-> ~(matrix.rows[1][1] # 0)]
    ELSE [raised |-> "ValueError", value |-> FALSE]

\* lines 85-87
SearchBegin(r, chunks, refit_lost) ==
    LET nm == NotMatrix(r.tfidf_matrix)
    IN  IF nm.raised # None THEN [retriever |-> r, raised |-> nm.raised]
        ELSE IF nm.value THEN build_tfidf_index(r, chunks, refit_lost)
        ELSE [retriever |-> r, raised |-> None]

\* lines 99-104
TagSemantic(result) ==
    LET md == result.metadata
        tagged == [id |-> result.id, score |-> result.score,
                   metadata |-> md, method |-> "semantic_search",
                   chunk_text |-> IF "chunk_text" \in DOMAIN md
                                  THEN md.chunk_text ELSE <<>>]
    IN  IF "text_for_embedding" \in DOMAIN md
        THEN tagged @@ [text_for_embedding |-> md.text_for_embedding]
        ELSE tagged

\* the embedding call raised (an empty vector stands for "no vector")
EmbeddingFailed == <<>>

\* what the embedding service may answer for a query
QueryEmbeddings == {EmbeddingFailed, <<3, 4>>, <<1>>}

\* a variant without the except of lines 105-106
DenseSearchReraises(f, emb, top_k, metric) ==
    IF emb = EmbeddingFailed
    THEN [error |-> "EmbeddingError", raised |-> "EmbeddingError",
          results |-> <<>>]
    ELSE LET q == query_faiss(f, emb, top_k, metric)
         IN  [error |-> q.raised, raised |-> q.raised,
              results |-> [i \in DOMAIN q.results |->
                              TagSemantic(q.results[i])]]

\* lines 90-106: the try block; f is the module state after _init_faiss
DenseSearch(f, emb, top_k, metric) ==
    IF emb = EmbeddingFailed
    THEN [error |-> "EmbeddingError", raised |-> None, results |-> <<>>]
    ELSE LET q == query_faiss(f, emb, top_k, metric)
         IN  IF q.raised # None
             THEN [error |-> q.raised, raised |-> None, results |-> <<>>]
             ELSE [error |-> None, raised |-> None,
                   results |-> [i \in DOMAIN q.results |->
                                   TagSemantic(q.results[i])]]

RECURSIVE DedupFrom(_, _)
\* lines 118-124
DedupFrom(seen_ids, all_results) ==
    IF all_results = <<>> THEN <<>>
    ELSE LET result == Head(all_results)
         IN  IF result.id \notin seen_ids
             THEN <<result>> \o DedupFrom(seen_ids \cup {result.id},
                                          Tail(all_results))
             ELSE DedupFrom(seen_ids, Tail(all_results))

\* a variant that keeps the last result with an id
KeepLastOccurrence(all_results) ==
    Reverse(DedupFrom({}, Reverse(all_results)))

\* lines 118-124
RemoveDuplicates(all_results) == DedupFrom({}, all_results)

\* a variant that slices one past top_k
TruncateOneMore(results, top_k) == Take(results, top_k + 1)

\* line 128
Truncate(results, top_k) == Take(results, top_k)

\* lines 114-128
MergeResults(dense_results, keyword_results, exact_results, top_k) ==
    LET all_results == dense_results \o keyword_results \o exact_results
        final_results == RemoveDuplicates(all_results)
    IN  Truncate(SortByScoreDesc(final_results), top_k)

\* lines 89-128, run from the point where the embedding call answers
SearchFinish(r, f, call, emb, metric) ==
    LET dense == DenseSearch(f, emb, call.top_k, metric)
        kw    == keyword_search(r, call.query, call.top_k)
        exact == exact_keyword_match(call.query, call.chunks)
        raised == IF dense.raised # None THEN dense.raised ELSE kw.raised
    IN  [pc |-> "done", query |-> call.query, chunks |-> call.chunks,
         top_k |-> call.top_k, raised |-> raised,
         dense_error |-> dense.error,
         dense_results |-> dense.results,
         keyword_results |-> IF raised = None THEN kw.results ELSE <<>>,
         exact_results |-> IF raised = None THEN exact ELSE <<>>,
         result |-> IF raised = None
                    THEN MergeResults(dense.results, kw.results, exact,
                                      call.top_k)
                    ELSE <<>>]

\* a call that raised before its embedding call
SearchRaised(query, chunks, top_k, err) ==
    [pc |-> "done", query |-> query, chunks |-> chunks, top_k |-> top_k,
     raised |-> err, dense_error |-> None, dense_results |-> <<>>,
     keyword_results |-> <<>>, exact_results |-> <<>>, result |-> <<>>]

(***************************************************************************)
(* State.                                                                  *)
(*   retriever  the global hybrid_retriever (retriever.py:131)             *)
(*   faiss      the globals _index, _metadata, _is_initialized             *)
(*   disk       the files FAISS_INDEX_PATH and FAISS_METADATA_PATH         *)
(*   METRIC     the configured metric, fixed for the process               *)
(*   hs         the hybrid_search call that is followed: idle, suspended   *)
(*              at its embedding call ("await"), or returned ("done")      *)
(*   up         the upsert_to_faiss calls of the request handlers          *)
(*   qf         a direct query_faiss call and what it observed             *)
(*   bt, ks     direct build_tfidf_index and keyword_search calls          *)
(*   rq         per handler, the position of run_handler in its request    *)
(*   em         a direct exact_keyword_match call                          *)
(*   db         the chunk ids persisted in the database                    *)
(*   ing        the ingest_document call that is followed                  *)
(*   ck         a direct chunk_text_by_page call                           *)
(*   qa         the answer of one question: evaluation and formatting      *)
(***************************************************************************)
VARIABLES retriever, faiss, disk, METRIC, hs, up, qf, bt, ks, rq, em, db, ing,
          ck, qa

vars == <<retriever, faiss, disk, METRIC, hs, up, qf, bt, ks, rq, em,
          db, ing, ck, qa>>

Handlers == {"h1", "h2"}

Idle == [pc |-> "idle"]

EmptyDisk == [index_file |-> AbsentFile, metadata_file |-> AbsentFile]

AllOk == [index |-> "ok", metadata |-> "ok"]

\* a disk an earlier run of the service left behind: chunk a, upserted
StoredDisk(metric) ==
    upsert_to_faiss(NewFaiss, EmptyDisk, <<Embedded(ChunkA)>>, AllOk,
                    metric).disk

Init ==
    /\ retriever = NewRetriever
    /\ faiss = NewFaiss
    /\ METRIC \in Metrics
    /\ disk \in {EmptyDisk, StoredDisk(METRIC)}
    /\ hs = Idle
    /\ up = [h \in Handlers |-> Idle]
    /\ qf = Idle
    /\ bt = Idle
    /\ ks = Idle
    /\ rq = [h \in Handlers |-> Idle]
    /\ em = Idle
    /\ db = {}
    /\ ing = Idle
    /\ ck = Idle
    /\ qa = Idle

\* index.ntotal once the module is initialized
Ntotal(f) == IF f.index = NoIndex THEN 0 ELSE Len(f.index.xb)

(***************************************************************************)
(* The service: request handlers are coroutines on one event loop, so the  *)
(* code between two awaits runs without interruption.                      *)
(***************************************************************************)
\* hybrid_search lines 85-87, then the call suspends at its embedding call
HsBegin(query, chunks, top_k, refit_lost) ==
    /\ hs.pc = "idle"
    /\ LET b == SearchBegin(retriever, chunks, refit_lost)
       IN  /\ retriever' = b.retriever
           /\ hs' = IF b.raised # None
                    THEN SearchRaised(query, chunks, top_k, b.raised)
                    ELSE [pc |-> "await", query |-> query, chunks |-> chunks,
                          top_k |-> top_k]
    /\ UNCHANGED <<faiss, disk, METRIC, up, qf, bt, ks, rq, em,
                   db, ing, ck, qa>>

\* the embedding call answers emb; lines 89-128 run to the return
HsFinish(emb) ==
    /\ hs.pc = "await"
    /\ LET f == IF emb = EmbeddingFailed THEN faiss
                ELSE InitFaiss(faiss, disk)
       IN  /\ faiss' = f
           /\ hs' = SearchFinish(retriever, f, hs, emb, METRIC)
    /\ UNCHANGED <<retriever, disk, METRIC, up, qf, bt, ks, rq, em,
                   db, ing, ck, qa>>

\* the caller has taken the result
HsReturn ==
    /\ hs.pc = "done"
    /\ hs' = Idle
    /\ UNCHANGED <<retriever, faiss, disk, METRIC, up, qf, bt, ks, rq, em,
                   db, ing, ck, qa>>

\* lines 85-87 of the hybrid_search of another request; what follows them
\* in that call reads the shared state and changes none of it
ConcurrentSearchBegin(chunks, refit_lost) ==
    /\ hs.pc # "done"
    /\ retriever' = SearchBegin(retriever, chunks, refit_lost).retriever
    /\ retriever' # retriever
    /\ UNCHANGED <<faiss, disk, METRIC, hs, up, qf, bt, ks, rq, em,
                   db, ing, ck, qa>>

\* upsert_to_faiss of a request (pipeline.py:200), entered and left between
\* two awaits.  Its writes succeed here: the files are read only by the
\* first _init_faiss of the process, which every upsert runs before it
\* writes, so what a failed write leaves on disk is never seen by a search
\* (SpecIndex follows the writes one by one).
Upsert(chunks) ==
    /\ hs.pc # "done"
    /\ Ntotal(InitFaiss(faiss, disk)) + Len(chunks) <= MaxVectors
    /\ LET m == upsert_to_faiss(faiss, disk, chunks, AllOk, METRIC)
       IN  /\ faiss' = m.faiss
           /\ disk' = m.disk
    /\ <<faiss', disk'>> # <<faiss, disk>>
    /\ UNCHANGED <<retriever, METRIC, hs, up, qf, bt, ks, rq, em,
                   db, ing, ck, qa>>

IOs == [index : WriteOutcomes, metadata : WriteOutcomes]

Next ==
    \/ \E q \in Queries, cs \in ChunkLists, k \in TopKs, lost \in BOOLEAN :
          HsBegin(q, cs, k, lost)
    \/ \E emb \in QueryEmbeddings : HsFinish(emb)
    \/ HsReturn
    \/ \E cs \in ChunkLists, lost \in BOOLEAN : ConcurrentSearchBegin(cs, lost)
    \/ \E cs \in ChunkLists : Upsert(EmbeddedList(cs))

Spec == Init /\ [][Next]_vars

(***************************************************************************)
(* The vector index, statement by statement.  run_handler and              *)
(* ingest_document are coroutines (query.py:63, pipeline.py:100) that call *)
(* upsert_to_faiss and query_faiss as plain functions: a call that has     *)
(* begun keeps the event loop until it is at one of its await points.      *)
(***************************************************************************)
ChunkD == Chunk("d", <<"dental">>)

\* the batches handed to upsert_to_faiss: chunk d has an embedding of another
\* dimension
Batches ==
    {EmbeddedList(cs) :
        cs \in {cs \in {<<>>, <<ChunkA>>, <<ChunkB>>, <<ChunkD>>, <<ChunkA2>>,
                        <<ChunkA, ChunkB>>, <<ChunkA, ChunkD>>,
                        <<ChunkA, ChunkB, ChunkS>>} : Len(cs) <= MaxChunks}}

\* a variant that yields the event loop after every statement
UpsertAwaitPointsEveryStatement ==
    {"create", "add", "extend", "write_index", "write_metadata", "done"}

\* the statements of upsert_to_faiss at which it awaits: none
\* (faiss_client.py:59-119)
UpsertAwaitPoints == {}

\* handler h is inside upsert_to_faiss and has not yielded the event loop
InUpsert(h) == up[h].pc \notin ({"idle"} \cup UpsertAwaitPoints)

LoopFreeFor(h) ==
    /\ \A g \in Handlers \ {h} : ~InUpsert(g)
    /\ qf.pc # "done"

Machine(h) == [faiss |-> faiss, disk |-> disk, up |-> up[h]]

\* lines 63-94 of a call by handler h
UpsertBegin(h, chunks) ==
    /\ up[h].pc = "idle"
    /\ LoopFreeFor(h)
    /\ Ntotal(InitFaiss(faiss, disk)) + Len(chunks) <= MaxVectors
    /\ LET m == UpBegin(faiss, disk, chunks, METRIC)
       IN  /\ faiss' = m.faiss
           /\ up' = [up EXCEPT ![h] = m.up]
    /\ UNCHANGED <<retriever, disk, METRIC, hs, qf, bt, ks, rq, em,
                   db, ing, ck, qa>>

\* the next statement of the call of handler h
UpsertStatement(h, io) ==
    /\ up[h].pc \notin {"idle", "done"}
    /\ LoopFreeFor(h)
    /\ LET m == UpStep(Machine(h), io, METRIC)
       IN  /\ faiss' = m.faiss
           /\ disk' = m.disk
           /\ up' = [up EXCEPT ![h] = m.up]
    /\ UNCHANGED <<retriever, METRIC, hs, qf, bt, ks, rq, em,
                   db, ing, ck, qa>>

\* the call returns or raises to ingest_document
UpsertReturn(h) ==
    /\ up[h].pc = "done"
    /\ LoopFreeFor(h)
    /\ up' = [up EXCEPT ![h] = Idle]
    /\ UNCHANGED <<retriever, faiss, disk, METRIC, hs, qf, bt, ks, rq, em,
                   db, ing, ck, qa>>

\* query_faiss(query_embedding, top_k) of some request, lines 121-159
QueryFaiss(query_embedding, top_k) ==
    /\ qf.pc = "idle"
    /\ \A g \in Handlers : ~InUpsert(g)
    /\ LET f == InitFaiss(faiss, disk)
           q == query_faiss(f, query_embedding, top_k, METRIC)
       IN  /\ faiss' = f
           /\ qf' = [pc |-> "done", query_embedding |-> query_embedding,
                     top_k |-> top_k, raised |-> q.raised,
                     results |-> q.results,
                     seen_ntotal |-> Ntotal(f),
                     seen_metadata |-> Len(f.metadata)]
    /\ UNCHANGED <<retriever, disk, METRIC, hs, up, bt, ks, rq, em,
                   db, ing, ck, qa>>

QueryReturn ==
    /\ qf.pc = "done"
    /\ qf' = Idle
    /\ UNCHANGED <<retriever, faiss, disk, METRIC, hs, up, bt, ks, rq, em,
                   db, ing, ck, qa>>

NextIndex ==
    \/ \E h \in Handlers, b \in Batches : UpsertBegin(h, b)
    \/ \E h \in Handlers, io \in IOs : UpsertStatement(h, io)
    \/ \E h \in Handlers : UpsertReturn(h)
    \/ \E e \in QueryEmbeddings \ {EmbeddingFailed}, k \in TopKs :
          QueryFaiss(e, k)
    \/ QueryReturn

SpecIndex == Init /\ [][NextIndex]_vars

(***************************************************************************)
(* The retriever's two methods called directly: build_tfidf_index          *)
(* statement by statement by one caller, keyword_search by another that    *)
(* may run between any two of those statements.  What a search returned is *)
(* taken by its caller before the build goes on: no statement reads it.    *)
(***************************************************************************)
\* line 28 of a call build_tfidf_index(chunks); line 29 ends the call when
\* there is no text
BuildStart(chunks) ==
    /\ bt.pc = "idle"
    /\ ks.pc # "done"
    /\ retriever' = BuildAssignTexts(retriever, chunks)
    /\ bt' = IF ChunkTexts(chunks) = <<>>
             THEN [pc |-> "done", chunks |-> chunks, raised |-> None]
             ELSE [pc |-> "fit", chunks |-> chunks]
    /\ UNCHANGED <<faiss, disk, METRIC, hs, up, qf, ks, rq, em,
                   db, ing, ck, qa>>

\* line 30, right-hand side
BuildFitTransform(refit_lost) ==
    /\ bt.pc = "fit"
    /\ ks.pc # "done"
    /\ LET f == BuildFit(retriever, refit_lost)
       IN  /\ retriever' = f.retriever
           /\ bt' = IF f.raised # None
                    THEN [pc |-> "done", chunks |-> bt.chunks,
                          raised |-> f.raised]
                    ELSE [pc |-> "store", chunks |-> bt.chunks,
                          matrix |-> f.matrix]
    /\ UNCHANGED <<faiss, disk, METRIC, hs, up, qf, ks, rq, em,
                   db, ing, ck, qa>>

\* line 30, the assignment to self.tfidf_matrix
BuildStore ==
    /\ bt.pc = "store"
    /\ ks.pc # "done"
    /\ retriever' = BuildAssignMatrix(retriever, bt.matrix)
    /\ bt' = [pc |-> "done", chunks |-> bt.chunks, raised |-> None]
    /\ UNCHANGED <<faiss, disk, METRIC, hs, up, qf, ks, rq, em,
                   db, ing, ck, qa>>

BuildReturn ==
    /\ bt.pc = "done"
    /\ ks.pc # "done"
    /\ bt' = Idle
    /\ UNCHANGED <<retriever, faiss, disk, METRIC, hs, up, qf, ks, rq, em,
                   db, ing, ck, qa>>

\* keyword_search(query, top_k), lines 32-53; seen is the model it read
KeywordSearch(query, top_k) ==
    /\ ks.pc = "idle"
    /\ LET k == keyword_search(retriever, query, top_k)
       IN  ks' = [pc |-> "done", query |-> query, top_k |-> top_k,
                  raised |-> k.raised, results |-> k.results,
                  seen |-> retriever, during |-> bt.pc]
    /\ UNCHANGED <<retriever, faiss, disk, METRIC, hs, up, qf, bt, rq, em,
                   db, ing, ck, qa>>

KeywordReturn ==
    /\ ks.pc = "done"
    /\ ks' = Idle
    /\ UNCHANGED <<retriever, faiss, disk, METRIC, hs, up, qf, bt, rq, em,
                   db, ing, ck, qa>>

NextRetriever ==
    \/ \E cs \in ChunkLists : BuildStart(cs)
    \/ \E lost \in BOOLEAN : BuildFitTransform(lost)
    \/ BuildStore
    \/ BuildReturn
    \/ \E q \in Queries, k \in TopKs : KeywordSearch(q, k)
    \/ KeywordReturn

\* the retriever reads neither the vector index nor its files
InitRetriever == Init /\ METRIC = "cosine" /\ disk = EmptyDisk

SpecRetriever == InitRetriever /\ [][NextRetriever]_vars

(***************************************************************************)
(* The request: run_handler ingests the document, then answers the         *)
(* questions one by one (query.py:63-148).                                 *)
(***************************************************************************)
MaxQuestions == 2

\* a variant that treats a failed upsert as it treats a failed embedding
IngestTailSwallows(f, d, chunks, embedding_ok, io, metric) ==
    IF ~embedding_ok
    THEN [faiss |-> f, disk |-> d, raised |-> None, upsert_raised |-> None,
          returned |-> chunks]
    ELSE LET m == upsert_to_faiss(f, d, EmbeddedList(chunks), io, metric)
         IN  [faiss |-> m.faiss, disk |-> m.disk, raised |-> None,
              upsert_raised |-> m.up.raised,
              returned |-> IF m.up.raised # None THEN chunks
                           ELSE EmbeddedList(chunks)]

\* ingest_document, pipeline.py:180-203: a failed embedding returns the
\* chunks without embeddings; upsert_to_faiss is called outside any try
IngestTail(f, d, chunks, embedding_ok, io, metric) ==
    IF ~embedding_ok
    THEN [faiss |-> f, disk |-> d, raised |-> None, upsert_raised |-> None,
          returned |-> chunks]
    ELSE LET m == upsert_to_faiss(f, d, EmbeddedList(chunks), io, metric)
         IN  [faiss |-> m.faiss, disk |-> m.disk, raised |-> m.up.raised,
              upsert_raised |-> m.up.raised,
              returned |-> IF m.up.raised # None THEN <<>>
                           ELSE EmbeddedList(chunks)]

\* the chunks of the documents requests name (pipeline.py:132-136), at most
\* MaxChunks each
Documents ==
    {cs \in {<<>>, <<ChunkA>>, <<ChunkA, ChunkB>>, <<ChunkA, ChunkB, ChunkS>>} :
        Len(cs) <= MaxChunks}

\* run_handler, query.py:65-80: an exception of ingest_document becomes
\* HTTPException(500); otherwise the question loop starts
ReqIngest(h, chunks, questions, embedding_ok, io) ==
    /\ rq[h].pc = "idle"
    /\ \A g \in Handlers : rq[g].pc # "done"
    /\ Ntotal(InitFaiss(faiss, disk)) + Len(chunks) <= MaxVectors
    /\ LET t == IngestTail(faiss, disk, chunks, embedding_ok, io, METRIC)
       IN  /\ faiss' = t.faiss
           /\ disk' = t.disk
           /\ rq' = [rq EXCEPT ![h] =
                 IF t.raised # None
                 THEN [pc |-> "done", status |-> 500, questions |-> questions,
                       answered |-> 0, upsert_raised |-> t.upsert_raised]
                 ELSE [pc |-> "questions", status |-> 0,
                       questions |-> questions, answered |-> 0,
                       upsert_raised |-> t.upsert_raised]]
    /\ UNCHANGED <<retriever, METRIC, hs, up, qf, bt, ks, em,
                   db, ing, ck, qa>>

\* query.py:81-145: one question is answered, or one of its steps raises
\* HTTPException(500)
ReqQuestion(h, ok) ==
    /\ rq[h].pc = "questions"
    /\ rq[h].answered < rq[h].questions
    /\ \A g \in Handlers : rq[g].pc # "done"
    /\ rq' = [rq EXCEPT ![h] =
                 IF ok THEN [@ EXCEPT !.answered = @ + 1]
                 ELSE [@ EXCEPT !.pc = "done", !.status = 500]]
    /\ UNCHANGED <<retriever, faiss, disk, METRIC, hs, up, qf, bt, ks, em,
                   db, ing, ck, qa>>

\* query.py:148
ReqRespond(h) ==
    /\ rq[h].pc = "questions"
    /\ rq[h].answered = rq[h].questions
    /\ \A g \in Handlers : rq[g].pc # "done"
    /\ rq' = [rq EXCEPT ![h] = [@ EXCEPT !.pc = "done", !.status = 200]]
    /\ UNCHANGED <<retriever, faiss, disk, METRIC, hs, up, qf, bt, ks, em,
                   db, ing, ck, qa>>

\* the response has been sent
ReqReturn(h) ==
    /\ rq[h].pc = "done"
    /\ rq' = [rq EXCEPT ![h] = Idle]
    /\ UNCHANGED <<retriever, faiss, disk, METRIC, hs, up, qf, bt, ks, em,
                   db, ing, ck, qa>>

NextRequest ==
    \/ \E h \in Handlers, cs \in Documents, n \in 1..MaxQuestions,
          ok \in BOOLEAN, io \in IOs : ReqIngest(h, cs, n, ok, io)
    \/ \E h \in Handlers, ok \in BOOLEAN : ReqQuestion(h, ok)
    \/ \E h \in Handlers : ReqRespond(h)
    \/ \E h \in Handlers : ReqReturn(h)

SpecRequest == Init /\ [][NextRequest]_vars

(***************************************************************************)
(* exact_keyword_match called directly, on chunk lists longer than the     *)
(* ten results it returns.                                                 *)
(***************************************************************************)
MaxExactChunks == 11

\* the uuid of the chunk at each position of a list
ChunkIds == <<"c1", "c2", "c3", "c4", "c5", "c6", "c7", "c8", "c9", "c10",
              "c11", "c12", "c13">>

ExactTexts == {<<"maternity">>, <<"Dental", "maternity", "x">>}

\* the lists of up to MaxExactChunks chunks that hold one text at up to
\* two positions p and q (0: nowhere) and another, or the same, elsewhere
ExactChunkLists ==
    {[i \in 1..n |-> Chunk(ChunkIds[i], IF i \in {p, q} THEN t[1] ELSE t[2])] :
        n \in 0..MaxExactChunks, p \in 0..MaxExactChunks,
        q \in 0..MaxExactChunks, t \in ExactTexts \X ExactTexts}

ExactQueries == Queries \cup {<<"Dental", "maternity">>, <<"the">>}

\* exact_keyword_match(query, chunks), lines 55-74
ExactMatch(query, chunks) ==
    /\ em.pc = "idle"
    /\ em' = [pc |-> "done", query |-> query, chunks |-> chunks,
              results |-> exact_keyword_match(query, chunks)]
    /\ UNCHANGED <<retriever, faiss, disk, METRIC, hs, up, qf, bt, ks, rq,
                   db, ing, ck, qa>>

ExactReturn ==
    /\ em.pc = "done"
    /\ em' = Idle
    /\ UNCHANGED <<retriever, faiss, disk, METRIC, hs, up, qf, bt, ks, rq,
                   db, ing, ck, qa>>

NextExact ==
    \/ \E q \in ExactQueries, cs \in ExactChunkLists : ExactMatch(q, cs)
    \/ ExactReturn

\* the matcher reads neither the vector index nor its files
InitExact == Init /\ METRIC = "cosine" /\ disk = EmptyDisk

SpecExact == InitExact /\ [][NextExact]_vars

(***************************************************************************)
(* ingest_document from the database write to its return                   *)
(* (pipeline.py:149-203).  ing = [pc, chunks, log, failed, raised,         *)
(* returned, before]: log lists the steps that completed, before is the    *)
(* vector index and the disk when the call began.                          *)
(***************************************************************************)
ChunkIdsOf(chunks) == {chunks[i].id : i \in DOMAIN chunks}

\* a variant whose except clause raises again
EmbedOrReraise(chunks, embedding_ok) ==
    IF embedding_ok
    THEN [raised |-> None, done |-> FALSE, returned |-> EmbeddedList(chunks)]
    ELSE [raised |-> "EmbeddingError", done |-> TRUE, returned |-> <<>>]

\* lines 180-197: the embedder adds the vectors after its last batch
\* (embedder.py:111-112), so a failure leaves the chunks as they were
EmbedOrFallBack(chunks, embedding_ok) ==
    IF embedding_ok
    THEN [raised |-> None, done |-> FALSE, returned |-> EmbeddedList(chunks)]
    ELSE [raised |-> None, done |-> TRUE, returned |-> chunks]

\* lines 132-150: the chunks exist, the session is opened; chunk ids are
\* new uuids, so none is in the database yet
IngestBegin(chunks) ==
    /\ ing.pc = "idle"
    /\ ChunkIdsOf(chunks) \cap db = {}
    /\ Ntotal(InitFaiss(faiss, disk)) + Len(chunks) <= MaxVectors
    /\ ing' = [pc |-> "persist", chunks |-> chunks, log |-> <<>>,
               failed |-> None, raised |-> None, returned |-> <<>>,
               before |-> [faiss |-> faiss, disk |-> disk]]
    /\ UNCHANGED <<retriever, faiss, disk, METRIC, hs, up, qf, bt, ks, rq, em,
                   db, ck, qa>>

\* lines 151-178: commit, or rollback and raise
IngestPersist(db_ok) ==
    /\ ing.pc = "persist"
    /\ IF db_ok
       THEN /\ db' = db \cup ChunkIdsOf(ing.chunks)
            /\ ing' = [ing EXCEPT !.pc = "embed",
                                  !.log = Append(@, "persist")]
       ELSE /\ db' = db
            /\ ing' = [ing EXCEPT !.pc = "done", !.failed = "db",
                                  !.raised = "SQLAlchemyError"]
    /\ UNCHANGED <<retriever, faiss, disk, METRIC, hs, up, qf, bt, ks, rq, em,
                   ck, qa>>

\* lines 180-197
IngestEmbed(embedding_ok) ==
    /\ ing.pc = "embed"
    /\ LET e == EmbedOrFallBack(ing.chunks, embedding_ok)
       IN  ing' = IF e.done
                  THEN [ing EXCEPT !.pc = "done", !.failed = "embedding",
                                   !.raised = e.raised,
                                   !.returned = e.returned]
                  ELSE [ing EXCEPT !.pc = "upsert",
                                   !.log = Append(@, "embed"),
                                   !.returned = e.returned]
    /\ UNCHANGED <<retriever, faiss, disk, METRIC, hs, up, qf, bt, ks, rq, em,
                   db, ck, qa>>

\* lines 199-203
IngestUpsert(io) ==
    /\ ing.pc = "upsert"
    /\ LET m == upsert_to_faiss(faiss, disk, ing.returned, io, METRIC)
       IN  /\ faiss' = m.faiss
           /\ disk' = m.disk
           /\ ing' = IF m.up.raised # None
                     THEN [ing EXCEPT !.pc = "done", !.failed = "upsert",
                                      !.raised = m.up.raised,
                                      !.returned = <<>>]
                     ELSE [ing EXCEPT !.pc = "done",
                                      !.log = Append(@, "upsert")]
    /\ UNCHANGED <<retriever, METRIC, hs, up, qf, bt, ks, rq, em, db, ck, qa>>

\* run_handler has the result or the exception
IngestReturn ==
    /\ ing.pc = "done"
    /\ ing' = Idle
    /\ UNCHANGED <<retriever, faiss, disk, METRIC, hs, up, qf, bt, ks, rq, em,
                   db, ck, qa>>

NextIngest ==
    \/ \E cs \in ChunkLists : IngestBegin(cs)
    \/ \E ok \in BOOLEAN : IngestPersist(ok)
    \/ \E ok \in BOOLEAN : IngestEmbed(ok)
    \/ \E io \in IOs : IngestUpsert(io)
    \/ IngestReturn

SpecIngest == Init /\ [][NextIngest]_vars

(***************************************************************************)
(* chunker.py.  A page text is a sequence of blocks: "heading" is a line   *)
(* that ARTICLE_HEADING_RE matches, "text" and "long_text" are other text  *)
(* that the splitter cuts into one and two pieces; long tells whether the  *)
(* stripped page has 50 characters or more.  "marker" is the <PAGE n> line *)
(* that line 17 puts before every kept page.                               *)
(***************************************************************************)
MaxPages == 2
MaxTotalChunks == 3

Page(long, blocks) == [long |-> long, blocks |-> blocks]

PageTexts ==
    {Page(FALSE, <<"text">>), Page(FALSE, <<"heading", "text">>),
     Page(TRUE, <<"text">>), Page(TRUE, <<"long_text">>),
     Page(TRUE, <<"heading", "text">>), Page(TRUE, <<"text", "heading">>),
     Page(TRUE, <<"text", "heading", "long_text">>)}

RECURSIVE PageListsOf(_)
PageListsOf(n) ==
    IF n = 0 THEN {<<>>}
    ELSE PageListsOf(n - 1) \cup
         {Append(ps, p) : ps \in {l \in PageListsOf(n - 1) : Len(l) = n - 1},
                          p \in PageTexts}

PageLists == PageListsOf(MaxPages)

RECURSIVE JoinPages(_)
\* lines 12-17 and 23: short pages are skipped
JoinPages(pages) ==
    IF pages = <<>> THEN <<>>
    ELSE (IF Head(pages).long THEN <<"marker">> \o Head(pages).blocks
                              ELSE <<>>) \o JoinPages(Tail(pages))

RECURSIVE BodyFrom(_, _)
\* parts[i + 1]: the blocks from position i up to the next heading
BodyFrom(joined, i) ==
    IF i > Len(joined) \/ joined[i] = "heading" THEN <<>>
    ELSE <<joined[i]>> \o BodyFrom(joined, i + 1)

RECURSIVE SectionsFrom(_, _)
\* lines 31-36: one section per heading whose body is not empty
SectionsFrom(joined, i) ==
    IF i > Len(joined) THEN <<>>
    ELSE IF joined[i] # "heading" THEN SectionsFrom(joined, i + 1)
    ELSE LET body == BodyFrom(joined, i + 1)
         IN  (IF body # <<>>
              THEN <<[section_title |-> <<"heading", i>>,
                      section_text |-> body]>>
              ELSE <<>>) \o SectionsFrom(joined, i + 1)

\* lines 11-41
split_into_sections(pages) ==
    LET joined == JoinPages(pages)
    IN  IF joined = <<>>
        THEN <<[section_title |-> <<"Document">>,
                section_text |-> <<"text">>]>>
        ELSE IF \E i \in DOMAIN joined : joined[i] = "heading"
        THEN SectionsFrom(joined, 1)
        ELSE <<[section_title |-> <<"Document">>, section_text |-> joined]>>

\* len(splitter.split_text(text)) for a text that is not blank
PieceCount(text) ==
    LET n == SumSeq([i \in DOMAIN text |->
                        CASE text[i] = "text" -> 1
                          [] text[i] = "long_text" -> 2
                          [] OTHER -> 0])
    IN  IF n = 0 THEN 1 ELSE n

RECURSIVE ChunkSectionsFrom(_, _)
\* lines 59-69; made is the number of uuids drawn so far, and the n-th
\* uuid4 is the id n
ChunkSectionsFrom(sections, made) ==
    IF sections = <<>> THEN <<>>
    ELSE LET sec == Head(sections)
             n == PieceCount(sec.section_text)
         IN  [idx \in 1..n |->
                 [id |-> made + idx,
                  chunk_text |-> [of |-> sec.section_title, piece |-> idx - 1],
                  metadata |-> [section |-> sec.section_title,
                                chunk_index |-> idx - 1]]]
             \o ChunkSectionsFrom(Tail(sections), made + n)

\* lines 45-69
chunk_sections(sections) == ChunkSectionsFrom(sections, 0)

\* lines 71-78, for max_total_chunks >= 1
chunk_text_by_page(pages, max_total_chunks) ==
    Take(chunk_sections(split_into_sections(pages)), max_total_chunks)

\* a direct call
ChunkTextByPage(pages, max_total_chunks) ==
    /\ ck.pc = "idle"
    /\ ck' = [pc |-> "done", pages |-> pages,
              max_total_chunks |-> max_total_chunks,
              chunks |-> chunk_text_by_page(pages, max_total_chunks)]
    /\ UNCHANGED <<retriever, faiss, disk, METRIC, hs, up, qf, bt, ks, rq, em,
                   db, ing, qa>>

ChunkReturn ==
    /\ ck.pc = "done"
    /\ ck' = Idle
    /\ UNCHANGED <<retriever, faiss, disk, METRIC, hs, up, qf, bt, ks, rq, em,
                   db, ing, qa>>

NextChunker ==
    \/ \E ps \in PageLists, n \in 1..MaxTotalChunks : ChunkTextByPage(ps, n)
    \/ ChunkReturn

InitChunker == Init /\ METRIC = "cosine" /\ disk = EmptyDisk

SpecChunker == InitChunker /\ [][NextChunker]_vars

(***************************************************************************)
(* The answer of one question: evaluate_answer (evaluator.py) and          *)
(* AdvancedResponseFormatter (formatter.py).  A string is the sequence of  *)
(* its characters, so that "in" is the substring test of Python.  A JSON   *)
(* value is [type |-> "string", chars], [type |-> "null"],                 *)
(* [type |-> "array"] or [type |-> "object", fields].                      *)
(***************************************************************************)
MaxRetrieved == 2

JsonString(chars) == [type |-> "string", chars |-> chars]
JsonNull == [type |-> "null"]
JsonArray == [type |-> "array"]
JsonObject(fields) == [type |-> "object", fields |-> fields]

\* needle in haystack, for two strings
IsSubstring(needle, haystack) ==
    \E i \in 0..(Len(haystack) - Len(needle)) :
        SubSeq(haystack, i + 1, i + Len(needle)) = needle

\* str.lower() on the letters of the model's answers
LowerChars(chars) ==
    [i \in DOMAIN chars |->
        CASE chars[i] = "N" -> "n"
          [] chars[i] = "Y" -> "y"
          [] chars[i] = "T" -> "t"
          [] OTHER -> chars[i]]

\* the answers the generator gives
AnswerTexts ==
    {<<"N", "o", "t", " ", "c", "o", "v", "e", "r", "e", "d">>,
     <<"Y", "e", "s">>,
     <<"e", "x", "c", "l", "u", "d", "e", "d">>,
     <<"3", "0", " ", "d", "a", "y", "s">>,
     <<"e", "l", "i", "g", "i", "b", "l", "e">>}

\* what the generator returns is a sequence of pieces, each [kind]: the
\* fences "```json" and "```", prose that is no JSON, or the text of one
\* JSON value
Piece(kind) == [kind |-> kind]
JsonPiece(value) == [kind |-> "json", value |-> value]

\* an object with both fields
FullAnswer ==
    JsonObject([answer |-> JsonString(<<"Y", "e", "s">>),
                justification |-> JsonString(<<"s", " ", "2">>)])

GeneratedValues ==
    {JsonObject([answer |-> JsonString(a),
                 justification |-> JsonString(<<"s", " ", "2">>)]) :
        a \in AnswerTexts}
    \cup {JsonObject([answer |-> JsonString(<<"Y", "e", "s">>)]),
          JsonObject([result |-> JsonString(<<"Y", "e", "s">>)]),
          JsonArray, JsonString(<<"Y", "e", "s">>)}

GeneratedTexts ==
    {<<>>, <<Piece("prose")>>, <<Piece("fence_json")>>}
    \cup {<<JsonPiece(v)>> : v \in GeneratedValues}
    \cup {<<Piece("fence_json"), JsonPiece(v), Piece("fence")>> :
            v \in GeneratedValues \cap {FullAnswer, JsonArray}}
    \cup {<<Piece("prose"), JsonPiece(FullAnswer)>>,
          <<Piece("fence"), JsonPiece(FullAnswer), Piece("fence")>>}

\* lines 74-78 and 147-151
StripFences(text) ==
    LET t1 == IF text # <<>> /\ text[1].kind = "fence_json"
              THEN Tail(text) ELSE text
    IN  IF t1 # <<>> /\ t1[Len(t1)].kind = "fence"
        THEN SubSeq(t1, 1, Len(t1) - 1) ELSE t1

\* json.loads: the text of exactly one JSON value, or JSONDecodeError
json_loads(text) ==
    IF Len(text) = 1 /\ text[1].kind = "json"
    THEN [raised |-> None, value |-> text[1].value]
    ELSE [raised |-> "JSONDecodeError", value |-> JsonNull]

\* lines 83-86 and 156-159
FallbackAnswer ==
    JsonObject([answer |-> JsonString(<<"U", "n", "a", "b", "l", "e">>),
                justification |-> JsonString(<<"E", "r", "r", "o", "r">>)])

\* lines 70-86 and 143-159
evaluate_answer(text) ==
    LET parsed == json_loads(StripFences(text))
    IN  IF parsed.raised = None THEN parsed.value ELSE FallbackAnswer

\* round(x, 3) of the fraction num / den, den > 0, in thousandths; the
\* floats that lie halfway for the model's scores round up
RoundToThousandths(num, den) == (2000 * num + den) \div (2 * den)

\* a variant without the penalty of lines 87-88
CalculateConfidenceNoPenalty(chunks) ==
    IF chunks = <<>> THEN 0
    ELSE LET sum == SumSeq([i \in DOMAIN chunks |-> chunks[i].score])
             den == Len(chunks) * Scale
             methods == {chunks[i].method : i \in DOMAIN chunks}
             bonus == Min2(Cardinality(methods) * 100, 300)
             c == RoundToThousandths(sum, den) + bonus
         IN  Min2(c, 1000)

\* lines 73-91, the result in thousandths: avg_score is num / den
\* _calculate_confidence
CalculateConfidence(chunks) ==
    IF chunks = <<>> THEN 0
    ELSE LET sum == SumSeq([i \in DOMAIN chunks |-> chunks[i].score])
             den == Len(chunks) * Scale
             methods == {chunks[i].method : i \in DOMAIN chunks}
             bonus == Min2(Cardinality(methods) * 100, 300)
             low == 10 * sum < 3 * den
             c == IF low THEN RoundToThousandths(sum, 2 * den) + bonus
                         ELSE RoundToThousandths(sum, den) + bonus
         IN  Min2(c, 1000)

\* parsed_query.get("intent", "")
IntentOf(parsed_query) ==
    IF "intent" \in DOMAIN parsed_query THEN parsed_query.intent
    ELSE JsonString(<<>>)

\* lines 97-104: the keywords in the order they are tried
ResponseKeywords ==
    <<[keyword |-> <<"c", "o", "v", "e", "r", "a", "g", "e">>,
       category |-> "coverage_decision"],
      [keyword |-> <<"w", "a", "i", "t", "i", "n", "g">>,
       category |-> "waiting_period_info"],
      [keyword |-> <<"e", "x", "c", "l", "u", "s", "i", "o", "n">>,
       category |-> "exclusion_check"],
      [keyword |-> <<"b", "e", "n", "e", "f", "i", "t">>,
       category |-> "benefit_calculation"]>>

\* lines 93-106: "in" on a value that is no string raises TypeError
\* _determine_response_type
DetermineResponseType(parsed_query) ==
    LET intent == IntentOf(parsed_query)
        Has(k) == IsSubstring(ResponseKeywords[k].keyword, intent.chars)
    IN  IF intent.type # "string"
        THEN [raised |-> "TypeError", value |-> None]
        ELSE [raised |-> None,
              value |-> IF Has(1) THEN ResponseKeywords[1].category
                        ELSE IF Has(2) THEN ResponseKeywords[2].category
                        ELSE IF Has(3) THEN ResponseKeywords[3].category
                        ELSE IF Has(4) THEN ResponseKeywords[4].category
                        ELSE "general_inquiry"]

\* line 122
CoveredWords ==
    {<<"c", "o", "v", "e", "r", "e", "d">>, <<"y", "e", "s">>,
     <<"e", "l", "i", "g", "i", "b", "l", "e">>}

\* line 124
NotCoveredWords ==
    {<<"n", "o", "t", " ", "c", "o", "v", "e", "r", "e", "d">>, <<"n", "o">>,
     <<"e", "x", "c", "l", "u", "d", "e", "d">>}

\* lines 119-125: is_covered, "None" when no word is found
\* _extract_coverage_details
ExtractIsCovered(answer) ==
    LET answer_lower == LowerChars(answer)
        AnyIn(words) == \E word \in words : IsSubstring(word, answer_lower)
    IN  IF AnyIn(CoveredWords) THEN "True"
        ELSE IF AnyIn(NotCoveredWords) THEN "False"
        ELSE None

\* the parsed queries: the intents the parser's prompt names
\* (query_parser.py:42), one that holds two keywords, an empty one, null,
\* and a query without intent
ParsedQueries ==
    {[intent |-> JsonString(c)] :
        c \in {<<"c", "o", "v", "e", "r", "a", "g", "e", "_", "c", "h",
                 "e", "c", "k">>,
               <<"w", "a", "i", "t", "i", "n", "g", "_", "p", "e",
                 "r", "i", "o", "d">>,
               <<"e", "x", "c", "l", "u", "s", "i", "o", "n", "_",
                 "c", "h", "e", "c", "k">>,
               <<"b", "e", "n", "e", "f", "i", "t", "_", "c", "a",
                 "l", "c", "u", "l", "a", "t", "i", "o", "n">>,
               <<"p", "o", "l", "i", "c", "y", "_", "t", "e", "r", "m", "s">>,
               <<"b", "e", "n", "e", "f", "i", "t", "_", "e", "x",
                 "c", "l", "u", "s", "i", "o", "n">>,
               <<>>}}
    \cup {[intent |-> JsonNull], [clause_type |-> JsonNull]}

\* the scores of IndexFlatIP and IndexFlatL2 for a query vector and a stored
\* vector that point the same or the opposite way
SemanticScores ==
    {FlatScore(NormalizeIfCosine(ToFloat(q), m),
               NormalizeIfCosine(ToFloat(EmbeddingOf(id)), m), m) :
        q \in {<<3, 4>>, <<-3, -4>>}, id \in {"a"}, m \in Metrics}

\* results as the formatter reads them: score and method
RetrievedResults ==
    [score : SemanticScores, method : {"semantic_search"}]
    \cup [score : {15, 90}, method : {"keyword_search"}]
    \cup [score : {10, 80}, method : {"exact_match"}]

RECURSIVE RetrievedListsOf(_)
RetrievedListsOf(n) ==
    IF n = 0 THEN {<<>>}
    ELSE RetrievedListsOf(n - 1) \cup
         {Append(l, r) : l \in {x \in RetrievedListsOf(n - 1) : Len(x) = n - 1},
                         r \in RetrievedResults}

\* query.py:126-142 and formatter.py:13-55: the fields the properties read
FormatResponse(eval_res, retrieved_chunks, parsed_query) ==
    IF eval_res.type # "object"
    THEN [raised |-> "TypeError", at |-> "eval_res"]
    ELSE IF ~({"answer", "justification"} \subseteq DOMAIN eval_res.fields)
    THEN [raised |-> "KeyError", at |-> "eval_res"]
    ELSE LET rt == DetermineResponseType(parsed_query)
         IN  IF rt.raised # None THEN [raised |-> rt.raised, at |-> "intent"]
             ELSE [raised |-> None,
                   answer |-> eval_res.fields.answer.chars,
                   confidence_score |-> CalculateConfidence(retrieved_chunks),
                   response_type |-> rt.value,
                   is_covered |->
                       ExtractIsCovered(eval_res.fields.answer.chars)]

\* query.py:124-133: the generator answers text
AnswerEvaluate(text) ==
    /\ qa.pc = "idle"
    /\ qa' = [pc |-> "evaluated", text |-> text,
              eval_res |-> evaluate_answer(text)]
    /\ UNCHANGED <<retriever, faiss, disk, METRIC, hs, up, qf, bt, ks, rq, em,
                   db, ing, ck>>

\* query.py:135-145
AnswerFormat(retrieved_chunks, parsed_query) ==
    /\ qa.pc = "evaluated"
    /\ qa' = [pc |-> "done", retrieved |-> retrieved_chunks,
              parsed |-> parsed_query,
              response |-> FormatResponse(qa.eval_res, retrieved_chunks,
                                          parsed_query)]
    /\ UNCHANGED <<retriever, faiss, disk, METRIC, hs, up, qf, bt, ks, rq, em,
                   db, ing, ck>>

\* the question is done: the next one, the response, or an error
AnswerReturn ==
    /\ qa.pc = "done"
    /\ qa' = Idle
    /\ UNCHANGED <<retriever, faiss, disk, METRIC, hs, up, qf, bt, ks, rq, em,
                   db, ing, ck>>

NextAnswer ==
    \/ \E text \in GeneratedTexts : AnswerEvaluate(text)
    \/ \E rs \in RetrievedListsOf(MaxRetrieved), pq \in ParsedQueries :
          AnswerFormat(rs, pq)
    \/ AnswerReturn

InitAnswer == Init /\ METRIC = "cosine" /\ disk = EmptyDisk

SpecAnswer == InitAnswer /\ [][NextAnswer]_vars

(***************************************************************************)
(* Properties of hybrid_search, checked under Spec.                        *)
(***************************************************************************)
HsReturned == hs.pc = "done" /\ hs.raised = None

HsIds(results) == {results[i].id : i \in DOMAIN results}

\* the concatenation of line 115 for the call that has returned
HsAllResults == hs.dense_results \o hs.keyword_results \o hs.exact_results

\* the first result of a list that carries the id
FirstWithId(results, id) ==
    results[CHOOSE i \in DOMAIN results :
               /\ results[i].id = id
               /\ \A j \in 1..(i - 1) : results[j].id # id]

NonIncreasing(results) ==
    \A i \in 1..(Len(results) - 1) : results[i].score >= results[i + 1].score

\* C1: a hybrid_search call with top_k >= 0 that returns gives at most top_k
\* results, with non-increasing scores from the first to the last.
C1_AtMostTopKSorted ==
    HsReturned => /\ Len(hs.result) <= hs.top_k
                  /\ NonIncreasing(hs.result)

\* C1 witness: a call returned top_k >= 2 results out of more candidates
\* that were not in score order when concatenated.
C1_Witness ==
    /\ HsReturned
    /\ hs.top_k >= 2
    /\ Len(hs.result) = hs.top_k
    /\ Cardinality(HsIds(HsAllResults)) > hs.top_k
    /\ ~NonIncreasing(HsAllResults)
    /\ hs.result[1].score > hs.result[2].score

\* C2: hybrid_search never raises to its caller; stated for the calls the
\* claim names, those made on a retriever whose sparse model already exists
\* from an earlier call.
C2_NeverRaisesOnceModelExists ==
    (hs.pc = "done" /\ retriever.tfidf_matrix # NoMatrix) => hs.raised = None

\* C3: the returned list holds no id twice, and the result kept for an id
\* is the first one with that id in the order dense, keyword, exact.
C3_DedupKeepsFirst ==
    HsReturned =>
        /\ \A i, j \in DOMAIN hs.result :
              hs.result[i].id = hs.result[j].id => i = j
        /\ \A i \in DOMAIN hs.result :
              hs.result[i] = FirstWithId(HsAllResults, hs.result[i].id)

\* C3 witness: an id found by the dense and by the exact method, with
\* different scores, is among the returned results.
C3_Witness ==
    /\ HsReturned
    /\ \E i \in DOMAIN hs.dense_results, j \in DOMAIN hs.exact_results,
          k \in DOMAIN hs.result :
          /\ hs.dense_results[i].id = hs.exact_results[j].id
          /\ hs.dense_results[i].score # hs.exact_results[j].score
          /\ hs.result[k].id = hs.exact_results[j].id

\* C4: the keyword results of every call are texts of chunks passed to
\* that same call (the sparse model is rebuilt when the chunk list differs).
C4_KeywordResultsOfThisCall ==
    HsReturned =>
        \A i \in DOMAIN hs.keyword_results :
            \E j \in DOMAIN hs.chunks :
                hs.chunks[j].chunk_text = hs.keyword_results[i].chunk_text

\* C5: when the query embedding or the vector query raised, the call still
\* returns, no result is tagged semantic_search, and the result is the
\* deduplicated, score-sorted, top_k-truncated merge of the keyword and
\* exact results.
C5_DenseFailureDegrades ==
    (hs.pc = "done" /\ hs.dense_error # None) =>
        /\ hs.raised = None
        /\ \A i \in DOMAIN hs.result :
              hs.result[i].method # "semantic_search"
        /\ LET kw == keyword_search(retriever, hs.query, hs.top_k).results
               exact == exact_keyword_match(hs.query, hs.chunks)
           IN  /\ HsIds(hs.result) \subseteq HsIds(kw \o exact)
               /\ Len(hs.result) =
                     Min2(hs.top_k, Cardinality(HsIds(kw \o exact)))
               /\ NonIncreasing(hs.result)
               /\ \A i \in DOMAIN hs.result :
                     hs.result[i] = FirstWithId(kw \o exact, hs.result[i].id)
               /\ \A i \in DOMAIN hs.result, r \in Range(kw \o exact) :
                     r.id \notin HsIds(hs.result) =>
                         r.score <= hs.result[i].score

\* C5 witness: the dense method failed and the call returned a keyword
\* result and an exact result.
C5_Witness ==
    /\ HsReturned
    /\ hs.dense_error # None
    /\ \E i, j \in DOMAIN hs.result :
          /\ hs.result[i].method = "keyword_search"
          /\ hs.result[j].method = "exact_match"

\* C6: hybrid_search with an empty chunk list returns an empty list and
\* does not raise, whatever the vector index and the sparse model hold.
C6_EmptyChunksEmptyResult ==
    (hs.pc = "done" /\ hs.chunks = <<>>) =>
        hs.raised = None /\ hs.result = <<>>


(***************************************************************************)
(* Properties of the vector index, checked under SpecIndex.                *)
(***************************************************************************)
InCall(h) == up[h].pc # "idle"

\* C9: the statements of one upsert_to_faiss are never interleaved with
\* those of another upsert_to_faiss or with a query_faiss: at most one
\* handler is inside upsert_to_faiss, a query runs only when none is, and
\* every query reads as many vectors as metadata records.
C9_SingleWriter ==
    /\ \A g, h \in Handlers : (InCall(g) /\ InCall(h)) => g = h
    /\ qf.pc = "done" =>
          /\ \A h \in Handlers : ~InCall(h)
          /\ qf.seen_ntotal = qf.seen_metadata

\* an upsert onto a filled index stands between its vector add and its
\* metadata extend, the counts in memory differing by its batch
C9_Witness ==
    \E h \in Handlers :
        /\ up[h].pc = "extend"
        /\ Len(faiss.metadata) > 0
        /\ Ntotal(faiss) = Len(faiss.metadata) + Len(up[h].chunks)

Completed(h) == up[h].pc = "done" /\ up[h].raised = None

\* the vector upsert_to_faiss stores for the chunk with this id
StoredVector(id) == NormalizeIfCosine(ToFloat(EmbeddingOf(id)), METRIC)

Parallel(index, metadata) ==
    /\ index # NoIndex
    /\ Len(index.xb) = Len(metadata)
    /\ \A i \in DOMAIN metadata : index.xb[i] = StoredVector(metadata[i].id)

\* C10: after every upsert_to_faiss that completes, in memory and on disk
\* the index holds as many vectors as there are records, the i-th record is
\* that of the chunk whose vector is the i-th, and the call has written both
\* files.
C10_ParallelAfterUpsert ==
    \A h \in Handlers : Completed(h) =>
        /\ Parallel(faiss.index, faiss.metadata)
        /\ disk.index_file = File(faiss.index)
        /\ disk.metadata_file = File(faiss.metadata)
        /\ up[h].wrote = {"index", "metadata"}

\* a completed upsert of a batch onto an index that already held a vector
\* of another chunk
C10_Witness ==
    \E h \in Handlers :
        /\ Completed(h)
        /\ 0 < Len(up[h].chunks)
        /\ Len(up[h].chunks) < Len(faiss.metadata)
        /\ faiss.metadata[1].id # faiss.metadata[Len(faiss.metadata)].id


(***************************************************************************)
(* Properties of the sparse index, checked under SpecRetriever.            *)
(***************************************************************************)
Rows(matrix) == IF matrix = NoMatrix THEN 0 ELSE Len(matrix.rows)

\* the model is the one a build from these texts alone produces
ModelOf(r, texts) ==
    /\ r.chunk_texts = texts
    /\ Rows(r.tfidf_matrix) = Len(texts)
    /\ texts # <<>> =>
          LET ft == FitTransform(texts)
          IN  /\ r.tfidf_matrix = ft.matrix
              /\ r.tfidf_vectorizer.vocabulary_ = ft.vocabulary_
              /\ r.tfidf_vectorizer.idf_ = ft.idf_

\* C7: after build_tfidf_index(chunks) returns, whatever was built before,
\* the matrix has one row per stored text, both come from chunks alone, and
\* keyword_search neither fails nor returns a text outside chunks.
C7_BuildReplacesModel ==
    (bt.pc = "done" /\ bt.raised = None) =>
        /\ ModelOf(retriever, ChunkTexts(bt.chunks))
        /\ \A q \in Queries, k \in TopKs :
              LET s == keyword_search(retriever, q, k)
              IN  /\ s.raised = None
                  /\ \A i \in DOMAIN s.results :
                        s.results[i].chunk_text \in Range(ChunkTexts(bt.chunks))

Mismatched(u, f) ==
    /\ u.pc # "idle"
    /\ \/ ~SameLengths(u.vectors)
       \/ /\ f.index # NoIndex
          /\ \E i \in DOMAIN u.vectors : Len(u.vectors[i]) # f.index.d

DimensionErrors == {"ValueError", "AssertionError"}

\* C11: the dimension of the index is that of the first vector inserted and
\* never changes; no statement of an upsert_to_faiss whose batch holds a
\* vector of another dimension stores anything in memory or on disk, and
\* such a call ends raising a dimension error.
C11_MismatchedBatchStoresNothing ==
    [][/\ (faiss.index # NoIndex /\ faiss.is_initialized) =>
              /\ faiss'.index # NoIndex
              /\ faiss'.index.d = faiss.index.d
              /\ \A i \in DOMAIN faiss'.index.xb :
                    Len(faiss'.index.xb[i]) = faiss.index.d
       /\ \A h \in Handlers :
              (up'[h] # up[h] /\ Mismatched(up'[h], faiss')) =>
                  /\ faiss' = InitFaiss(faiss, disk)
                  /\ disk' = disk
                  /\ up'[h].pc \in {"create", "add", "done"}
                  /\ up'[h].pc = "done" => up'[h].raised \in DimensionErrors
      ]_vars

\* a batch of another dimension was refused by an index that holds vectors
C11_Witness ==
    \E h \in Handlers :
        /\ up[h].pc = "done"
        /\ up[h].raised = "AssertionError"
        /\ Mismatched(up[h], faiss)
        /\ Ntotal(faiss) > 0

\* C12: query_faiss on an index without vectors returns an empty list and
\* does not raise, also when nothing was ever upserted and no file exists.
C12_EmptyIndexEmptyResult ==
    (qf.pc = "done" /\ qf.seen_ntotal = 0) =>
        qf.raised = None /\ qf.results = <<>>

\* C13: query_faiss returns at most top_k results, with non-increasing
\* scores from the first to the last, under either metric.
C13_AtMostTopKDescending ==
    (qf.pc = "done" /\ qf.raised = None) =>
        /\ Len(qf.results) <= qf.top_k
        /\ NonIncreasing(qf.results)


\* the best score a stored vector can get: inner product 1 of unit vectors,
\* or L2 distance 0
MaxSimilarity(metric) == IF metric = "cosine" THEN Scale ELSE 0

\* C14: a query_faiss with top_k >= 1 and the embedding of a chunk that was
\* upserted returns that chunk's id first, with the best score of the
\* metric.
C14_RoundTrip ==
    (qf.pc = "done" /\ qf.top_k >= 1) =>
        \A i \in DOMAIN faiss.metadata :
            EmbeddingOf(faiss.metadata[i].id) = qf.query_embedding =>
                /\ qf.raised = None
                /\ qf.results # <<>>
                /\ qf.results[1].id = faiss.metadata[i].id
                /\ qf.results[1].score = MaxSimilarity(METRIC)


(***************************************************************************)
(* Properties of the request, checked under SpecRequest.                   *)
(***************************************************************************)
\* C15: when a file write of upsert_to_faiss failed, upsert_to_faiss and
\* ingest_document raised and the request ends with status 500 having
\* answered no question.
C15_WriteFailureAbortsRequest ==
    \A h \in Handlers :
        (rq[h].pc # "idle" /\ rq[h].upsert_raised = "IOError") =>
            /\ rq[h].pc = "done"
            /\ rq[h].status = 500
            /\ rq[h].answered = 0

\* the metadata write of a request failed after its index write succeeded,
\* while another request was answering questions
C15_Witness ==
    \E g, h \in Handlers :
        /\ rq[h].pc = "done"
        /\ rq[h].upsert_raised = "IOError"
        /\ disk.index_file = File(faiss.index)
        /\ disk.metadata_file # File(faiss.metadata)
        /\ rq[g].pc = "questions"
        /\ rq[g].answered > 0


(***************************************************************************)
(* Further properties of the sparse index, checked under SpecRetriever.    *)
(***************************************************************************)
\* C16: a keyword_search before any build_tfidf_index returns an empty
\* list and does not raise.
C16_SearchBeforeBuild ==
    (ks.pc = "done" /\ ks.seen = NewRetriever) =>
        ks.raised = None /\ ks.results = <<>>

C16_Witness ==
    /\ ks.pc = "done"
    /\ ks.seen = NewRetriever
    /\ ks.query # <<>>
    /\ ks.top_k > 0

\* the 0-based matrix row a keyword result names
RowOf(id) == CHOOSE idx \in 0..3 : KeywordId(idx) = id

\* C17: a keyword_search after a build returns at most top_k results, each
\* with similarity above zero, scores non-increasing, and results of equal
\* score in ascending row order.
C17_KeywordOrder ==
    (ks.pc = "done" /\ ks.raised = None /\ ks.seen.tfidf_matrix # NoMatrix) =>
        /\ Len(ks.results) <= ks.top_k
        /\ \A i \in DOMAIN ks.results : ks.results[i].score > 0
        /\ NonIncreasing(ks.results)
        /\ \A i, j \in DOMAIN ks.results :
              (i < j /\ ks.results[i].score = ks.results[j].score) =>
                  RowOf(ks.results[i].id) < RowOf(ks.results[j].id)

\* C18: a build_tfidf_index that returned, made once more with the same
\* chunk list, returns again and leaves keyword_search the same answer to
\* every query and top_k.
C18_BuildIdempotent ==
    (bt.pc = "done" /\ bt.raised = None) =>
        \A lost \in BOOLEAN :
            LET again == build_tfidf_index(retriever, bt.chunks, lost)
            IN  /\ again.raised = None
                /\ \A q \in Queries, k \in TopKs :
                      keyword_search(again.retriever, q, k) =
                          keyword_search(retriever, q, k)

\* a build over two chunks returned and a query finds both of them
C18_Witness ==
    /\ bt.pc = "done"
    /\ bt.raised = None
    /\ Len(bt.chunks) >= 2
    /\ \E q \in Queries, k \in TopKs :
          Len(keyword_search(retriever, q, k).results) >= 2


(***************************************************************************)
(* Properties of the exact matcher, checked under SpecExact.               *)
(***************************************************************************)
\* the position in the input list of the chunk with this id
PosOf(id) == CHOOSE j \in DOMAIN em.chunks : em.chunks[j].id = id

\* the query terms found in the chunk at position j
Matches(j) == WordSet(em.query) \cap WordSet(em.chunks[j].chunk_text)

\* |matches| / |query_terms| in hundredths
Fraction(matches) ==
    (Cardinality(matches) * Scale) \div Cardinality(WordSet(em.query))

ReturnedIds == {em.results[i].id : i \in DOMAIN em.results}

\* every chunk holds exactly one of the query terms
OneTermInEveryChunk ==
    /\ em.chunks # <<>>
    /\ \A j \in DOMAIN em.chunks : Cardinality(Matches(j)) = 1

\* the score of every result is the fraction of query terms its chunk
\* holds; no match anywhere, or an empty query, gives no result
ExactScores ==
    /\ \A i \in DOMAIN em.results :
          /\ em.results[i].matched_terms = Matches(PosOf(em.results[i].id))
          /\ em.results[i].score = Fraction(em.results[i].matched_terms)
    /\ (\A j \in DOMAIN em.chunks : Matches(j) = {}) => em.results = <<>>
    /\ WordSet(em.query) = {} => em.results = <<>>

\* C19 as stated: the scores, and when exactly one query term occurs in
\* every chunk, every chunk is returned with score 1/|query_terms|.
C19_EveryChunkReturned ==
    em.pc = "done" =>
        /\ ExactScores
        /\ OneTermInEveryChunk =>
              \A j \in DOMAIN em.chunks :
                  \E i \in DOMAIN em.results :
                      /\ em.results[i].id = em.chunks[j].id
                      /\ em.results[i].score =
                            Scale \div Cardinality(WordSet(em.query))

\* C19 amended: the scores, and when exactly one query term occurs in every
\* chunk, the results are the first ten chunks of the list, in its order
\* (every chunk when there are at most ten), each with score
\* 1/|query_terms|.
C19_FirstTenReturned ==
    em.pc = "done" =>
        /\ ExactScores
        /\ OneTermInEveryChunk =>
              /\ Len(em.results) = Min2(ExactTopN, Len(em.chunks))
              /\ \A i \in DOMAIN em.results :
                    /\ em.results[i].id = em.chunks[i].id
                    /\ em.results[i].score =
                          Scale \div Cardinality(WordSet(em.query))

\* eleven chunks each hold one of two query terms and ten are returned
C19_Witness ==
    /\ em.pc = "done"
    /\ OneTermInEveryChunk
    /\ Cardinality(WordSet(em.query)) = 2
    /\ Len(em.chunks) > ExactTopN
    /\ Len(em.results) = ExactTopN
    /\ \E j, k \in DOMAIN em.chunks :
          em.chunks[j].chunk_text # em.chunks[k].chunk_text

\* C20: exact_keyword_match returns at most 10 results, each with a matched
\* term, scores non-increasing, equal scores in input order, and no chunk
\* left out scores higher than a returned one.
C20_TopTenStable ==
    em.pc = "done" =>
        /\ Len(em.results) <= ExactTopN
        /\ \A i \in DOMAIN em.results : em.results[i].matched_terms # {}
        /\ NonIncreasing(em.results)
        /\ \A i, j \in DOMAIN em.results :
              (i < j /\ em.results[i].score = em.results[j].score) =>
                  PosOf(em.results[i].id) < PosOf(em.results[j].id)
        /\ \A j \in DOMAIN em.chunks, i \in DOMAIN em.results :
              (em.chunks[j].id \notin ReturnedIds /\ Matches(j) # {}) =>
                  Fraction(Matches(j)) <= em.results[i].score

\* eleven matching chunks of two different scores: ten are returned, the
\* best one stood last in the list, and one matching chunk is left out
C20_Witness ==
    /\ em.pc = "done"
    /\ Len(em.chunks) > ExactTopN
    /\ \A j \in DOMAIN em.chunks : Matches(j) # {}
    /\ Len(em.results) = ExactTopN
    /\ em.results[1].id = em.chunks[Len(em.chunks)].id
    /\ em.results[1].score > em.results[2].score
    /\ em.results[2].score = em.results[3].score


(***************************************************************************)
(* Further properties of hybrid_search, checked under Spec.                *)
(***************************************************************************)
\* C26: no keyword result carries the id of a dense or an exact result, so
\* deduplication merges it with none of them: a call that truncated nothing
\* returns every keyword result next to one result per chunk id.
C26_KeywordIdsNeverMerge ==
    HsReturned =>
        /\ \A i \in DOMAIN hs.keyword_results :
              hs.keyword_results[i].id \notin
                  HsIds(hs.dense_results \o hs.exact_results)
        /\ Len(hs.result) < hs.top_k =>
              /\ \A i \in DOMAIN hs.keyword_results :
                    hs.keyword_results[i] \in Range(hs.result)
              /\ Len(hs.result) =
                    Cardinality(HsIds(hs.dense_results \o hs.exact_results))
                      + Len(hs.keyword_results)

\* C26 witness: the returned list holds one chunk text twice, once found by
\* keyword search and once by exact match, under different ids.
C26_Witness ==
    /\ HsReturned
    /\ \E i, j \in DOMAIN hs.result :
          /\ hs.result[i].method = "keyword_search"
          /\ hs.result[j].method = "exact_match"
          /\ hs.result[i].chunk_text = hs.result[j].chunk_text
          /\ hs.result[i].id # hs.result[j].id

\* the chunk ids of the chunks argument of the call that has returned
HsChunkIds == {hs.chunks[j].id : j \in DOMAIN hs.chunks}

\* C27: every result hybrid_search returns refers to a chunk of the chunks
\* argument of that call: a keyword result by its text, any other by its id.
C27_ResultsOfThisCallOnly ==
    HsReturned =>
        \A i \in DOMAIN hs.result :
            IF hs.result[i].method = "keyword_search"
            THEN \E j \in DOMAIN hs.chunks :
                     hs.chunks[j].chunk_text = hs.result[i].chunk_text
            ELSE hs.result[i].id \in HsChunkIds


(***************************************************************************)
(* Atomicity of upsert_to_faiss, checked under SpecIndex.                  *)
(***************************************************************************)
\* C28: between two calls, whatever batch is upserted next and however its
\* writes end, a call that raises leaves the vector count, the metadata
\* table and both files as they were before it.
C28_FailedUpsertAtomic ==
    (\A h \in Handlers : up[h].pc = "idle") =>
        \A b \in Batches, io \in IOs :
            LET before == InitFaiss(faiss, disk)
                m == upsert_to_faiss(faiss, disk, b, io, METRIC)
            IN  m.up.raised # None =>
                    /\ Ntotal(m.faiss) = Ntotal(before)
                    /\ m.faiss.metadata = before.metadata
                    /\ m.disk = disk


(***************************************************************************)
(* Properties of ingest_document, checked under SpecIngest.                *)
(***************************************************************************)
IngestSteps == <<"persist", "embed", "upsert">>

\* C30: the steps of a call complete in the order persist, embed, upsert;
\* a failed database write raises with nothing persisted, embedded or
\* upserted; a failed embedding leaves the vector index and its files as
\* they were and returns the chunks, without embeddings, instead of raising.
C30_IngestionOrder ==
    ing.pc # "idle" =>
        /\ Len(ing.log) <= 3
        /\ ing.log = Take(IngestSteps, Len(ing.log))
        /\ ing.log # <<>> => ChunkIdsOf(ing.chunks) \subseteq db
        /\ (ing.pc = "done" /\ ing.failed = "db") =>
              /\ ing.raised # None
              /\ ing.log = <<>>
              /\ ChunkIdsOf(ing.chunks) \cap db = {}
              /\ ing.before = [faiss |-> faiss, disk |-> disk]
        /\ (ing.pc = "done" /\ ing.failed = "embedding") =>
              /\ ing.raised = None
              /\ ing.log = <<"persist">>
              /\ ing.returned = ing.chunks
              /\ \A i \in DOMAIN ing.returned :
                    "embedding" \notin DOMAIN ing.returned[i]
              /\ ing.before = [faiss |-> faiss, disk |-> disk]

\* C30 witness: the embedding of a second document failed after its chunks
\* were persisted, while the index held the vectors of the first.
C30_Witness ==
    /\ ing.pc = "done"
    /\ ing.failed = "embedding"
    /\ ing.chunks # <<>>
    /\ ChunkIdsOf(ing.chunks) \subseteq db
    /\ faiss.is_initialized
    /\ Ntotal(faiss) > 0
    /\ Len(faiss.metadata) = Ntotal(faiss)


(***************************************************************************)
(* Properties of the chunker, checked under SpecChunker.                   *)
(***************************************************************************)
\* C25: for max_total_chunks >= 1, chunk_text_by_page returns at least one
\* and at most max_total_chunks chunks, each with an id, a chunk_text and a
\* metadata mapping, and no two with the same id.
C25_BetweenOneAndMaxChunks ==
    (ck.pc = "done" /\ ck.max_total_chunks >= 1) =>
        /\ Len(ck.chunks) >= 1
        /\ Len(ck.chunks) <= ck.max_total_chunks
        /\ \A i \in DOMAIN ck.chunks :
              {"id", "chunk_text", "metadata"} \subseteq DOMAIN ck.chunks[i]
        /\ \A i, j \in DOMAIN ck.chunks :
              ck.chunks[i].id = ck.chunks[j].id => i = j


(***************************************************************************)
(* Properties of the evaluator and the formatter, checked under SpecAnswer.*)
(***************************************************************************)
IsJsonStringField(v, name) ==
    /\ name \in DOMAIN v.fields
    /\ v.fields[name].type = "string"

\* C21: whatever text the generator returned, the result of evaluate_answer
\* is an object with the strings answer and justification.
C21_AlwaysAnswerAndJustification ==
    qa.pc = "evaluated" =>
        /\ qa.eval_res.type = "object"
        /\ IsJsonStringField(qa.eval_res, "answer")
        /\ IsJsonStringField(qa.eval_res, "justification")

Formatted == qa.pc = "done" /\ qa.response.raised = None

\* min(avg * penalty + bonus, 1.0) rounded to 3 decimals, in thousandths:
\* avg * penalty is num / den, and the rounded value is the thousandth r
\* nearest to it, the upper one of two
ConfidenceOf(scores, distinct_methods) ==
    LET sum == SumSeq(scores)
        n == Len(scores)
        low == 10 * sum < 3 * n * Scale
        num == sum
        den == IF low THEN 2 * n * Scale ELSE n * Scale
        bonus == Min2(100 * distinct_methods, 300)
        total == 1000 * num + bonus * den
    IN  IF total >= 1000 * den THEN 1000
        ELSE CHOOSE r \in -1000..1000 :
                 /\ 2 * (total - r * den) < den
                 /\ 2 * (total - r * den) >= -den

\* C22: the confidence is 0.0 for an empty list and otherwise
\* min(avg * penalty + bonus, 1.0) rounded to 3 decimals, with penalty 0.5
\* when avg < 0.3 and bonus min(0.1 * distinct methods, 0.3); scores 0.9 and
\* 0.8 from two methods give 1.0.
C22_ConfidenceFormula ==
    Formatted =>
        /\ qa.retrieved = <<>> => qa.response.confidence_score = 0
        /\ qa.retrieved # <<>> =>
              qa.response.confidence_score =
                  ConfidenceOf([i \in DOMAIN qa.retrieved |->
                                   qa.retrieved[i].score],
                               Cardinality({qa.retrieved[i].method :
                                               i \in DOMAIN qa.retrieved}))
        /\ (/\ Len(qa.retrieved) = 2
            /\ {qa.retrieved[1].score, qa.retrieved[2].score} = {90, 80}
            /\ qa.retrieved[1].method # qa.retrieved[2].method) =>
              qa.response.confidence_score = 1000

\* C22 witness: scores 0.15 and 0.1 from two methods, a low average that is
\* halved, give 0.263.
C22_Witness ==
    /\ Formatted
    /\ Len(qa.retrieved) = 2
    /\ qa.retrieved[1] = [score |-> 15, method |-> "keyword_search"]
    /\ qa.retrieved[2] = [score |-> 10, method |-> "exact_match"]
    /\ qa.response.confidence_score = 263

AnswerHasOneOf(words) ==
    \E word \in words : IsSubstring(word, LowerChars(qa.response.answer))

\* C23: is_covered is false when the answer holds "not covered", "no" or
\* "excluded", otherwise true when it holds "covered", "yes" or "eligible",
\* and unknown when it holds none of them.
C23_CoverageFlag ==
    Formatted =>
        qa.response.is_covered =
            IF AnswerHasOneOf(NotCoveredWords) THEN "False"
            ELSE IF AnswerHasOneOf(CoveredWords) THEN "True"
            ELSE None

\* the intent as a string: empty when the query has none or a null one
IntentChars ==
    IF "intent" \in DOMAIN qa.parsed /\ qa.parsed.intent.type = "string"
    THEN qa.parsed.intent.chars ELSE <<>>

\* the keywords that are substrings of the intent, by position
KeywordsInIntent ==
    {k \in DOMAIN ResponseKeywords :
        IsSubstring(ResponseKeywords[k].keyword, IntentChars)}

\* C24: the response type is the category of the first keyword, in the
\* order coverage, waiting, exclusion, benefit, that the intent holds, and
\* general_inquiry when it holds none, is empty or has no value; the
\* formatter does not raise.
C24_ResponseType ==
    (qa.pc = "done" /\ ~(qa.response.raised # None
                           /\ qa.response.at = "eval_res")) =>
        /\ qa.response.raised = None
        /\ IF KeywordsInIntent = {}
           THEN qa.response.response_type = "general_inquiry"
           ELSE \E k \in KeywordsInIntent :
                   /\ \A j \in KeywordsInIntent : k <= j
                   /\ qa.response.response_type = ResponseKeywords[k].category

\* C29: the confidence lies in [0, 1] for every retrieved list.
C29_ConfidenceInUnitRange ==
    Formatted =>
        /\ qa.response.confidence_score >= 0
        /\ qa.response.confidence_score <= 1000

=============================================================================
